---- MODULE Spec2Model ----
(***************************************************************************)
(* A model of the time-series viewer (src/src/App.jsx): the timestamp      *)
(* normaliser, the range filter, the grouping and trace builder, the       *)
(* smoother, the zero-baseliner, the statistics engine, the pattern        *)
(* detector, and the upload with its retries and its recent-files list.    *)
(*                                                                         *)
(* CSV cells are strings (Papa.parse is called with header: true and no    *)
(* dynamicTyping), modelled as sequences of one-character strings so that  *)
(* parseFloat, Number and new Date(string) are computed, not tabulated.    *)
(* A JS number that does not fit a 32-bit integer (an instant in epoch     *)
(* milliseconds, a numeric timestamp) is a two-limb integer                *)
(* [hi, lo] = hi * 10^6 + lo with 0 <= lo < 10^6.  Means are exact         *)
(* rationals [num, den]; floating-point rounding is not modelled.          *)
(***************************************************************************)
EXTENDS Integers, Sequences, FiniteSets, TLC

VARIABLES
    data,            \* useState([]): the loaded rows
    dataColumns,     \* useState([]): the column names, in header order
    selectedX,       \* useState("Epoch")
    selectedY,       \* useState("Easting")
    selectedY2,      \* useState("Northing")
    chartType,       \* useState(CHART_TYPES.LINE)
    showSmooth,      \* useState(false)
    smoothingWindow, \* useState(5)
    smoothingType,   \* useState('count')
    smoothingHours,  \* useState(24)
    relativeToZero,  \* useState(false)
    startDate,       \* useState(null): <<>> is null, <<d>> a Date
    endDate,         \* useState(null)
    autoDateRange,   \* useState(true)
    fileName,        \* useState("")
    recentFiles,     \* useState(() => the list saved in localStorage, or [])
    loading,         \* useState(false)
    error,           \* useState(null): <<>> is null, <<e>> an error
    retryCount,      \* useState(0)
    dataPatterns,    \* useState({}): the entries in insertion order
    aiInsights,      \* useState([])
    closureRecentFiles, \* the recentFiles that handleFileUpload closed over
    savedRecentFiles,   \* localStorage 'asb-viewer-recent-files'
    uploads,         \* the calls of retryOperation that have not returned
    settled,         \* the call of retryOperation that returned last
    now,             \* the wall clock read by new Date()
    arg,             \* the input of the pure function under study
    ret              \* its result: <<>> before the call, <<r>> after

appVars == <<data, dataColumns, selectedX, selectedY, selectedY2, chartType,
             showSmooth, smoothingWindow, smoothingType, smoothingHours,
             relativeToZero, startDate, endDate, autoDateRange>>
\* the state of the upload: what handleFileUpload and retryOperation set
uploadVars == <<fileName, recentFiles, loading, error, retryCount, dataPatterns,
                aiInsights, closureRecentFiles, savedRecentFiles, uploads, settled>>
vars == <<data, dataColumns, selectedX, selectedY, selectedY2, chartType,
          showSmooth, smoothingWindow, smoothingType, smoothingHours,
          relativeToZero, startDate, endDate, autoDateRange, now, arg, ret,
          uploadVars>>

(***************************************************************************)
(* Bounds of the model.                                                    *)
(***************************************************************************)
MaxRows == 3
MaxClock == 2
\* movingAverage is applied to sequences of at most MaxSmoothLen values of
\* 0..MaxSmoothValue with a window of 3..MaxWindow
MaxSmoothLen == 4
MaxSmoothValue == 3
MaxWindow == 4
\* makeRelativeToZero is applied to sequences of at most MaxBaseLen values,
\* the numbers among them in -1..MaxBaseValue
MaxBaseLen == 3
MaxBaseValue == 1
\* calculateStatistics is applied to sequences of at most MaxStatLen values
\* of 1..MaxStatValue
MaxStatLen == 4
MaxStatValue == 4
\* detectSeasonality is checked on sequences of at most MaxSeasonCycles
\* cycles (and one value more) of a period, that rise by at most
\* MaxSeasonStep from one value to the next, from a base of at most
\* MaxSeasonBase in magnitude
MaxSeasonCycles == 2
MaxSeasonStep == 2
MaxSeasonBase == 3
\* detectDataPatterns is checked on columns of at most MaxPatternLen values
\* of -MaxPatternValue..MaxPatternValue, and on a column of nine values
MaxPatternLen == 3
MaxPatternValue == 2
\* at most MaxUploads calls of retryOperation are in flight
MaxUploads == 1
\* the dual-axis chart is checked on files of at most MaxDualRows rows
MaxDualRows == 2
\* the overlays are checked on files of at most MaxOverlayRows rows, with a
\* window of 3..MaxOverlayWindow points
MaxOverlayRows == 4
MaxOverlayWindow == 4
\* timeBasedMovingAverage is applied to at most MaxTimeLen points with values
\* 0..MaxTimeValue
MaxTimeLen == 3
MaxTimeValue == 2
\* calculateOptimalDateRange is applied to at most MaxRangeLen rows
MaxRangeLen == 3
\* the files for the choice of the grouping column have at most MaxGroupRows rows
MaxGroupRows == 2
\* detectOutliers is applied to sequences of at most MaxOutlierLen values
MaxOutlierLen == 5

(***************************************************************************)
(* Two-limb integers.                                                      *)
(***************************************************************************)
Base == 1000 * 1000
Big(h, l) == [hi |-> h + (l \div Base), lo |-> l % Base]
BigLT(a, b) == a.hi < b.hi \/ (a.hi = b.hi /\ a.lo < b.lo)
BigLE(a, b) == ~BigLT(b, a)
BigAdd(a, b) == Big(a.hi + b.hi, a.lo + b.lo)
BigSub(a, b) == Big(a.hi - b.hi, a.lo - b.lo)
BigNeg(a) == Big(-a.hi, -a.lo)
BigTimes(a, k) == Big(a.hi * k, a.lo * k)
\* floor(a / k) for 0 < k <= 2000
BigDiv(a, k) == [hi |-> a.hi \div k, lo |-> ((a.hi % k) * Base + a.lo) \div k]
\* the value as a TLA+ integer, where it fits
Small(a) == a.hi * Base + a.lo

(***************************************************************************)
(* Strings and the JS conversions of strings.                              *)
(***************************************************************************)
Digits == <<"0", "1", "2", "3", "4", "5", "6", "7", "8", "9">>
IsDigit(c) == \E i \in 1..10 : Digits[i] = c
DigitVal(c) == (CHOOSE i \in 1..10 : Digits[i] = c) - 1

\* row[col] of a column the row does not have
Undefined == <<"undefined">>
\* !v for a cell: the empty string and undefined are falsy
Falsy(v) == v = <<>> \/ v = Undefined

NaN == <<>>
IsNaN(n) == n = <<>>

RECURSIVE DigitPrefix(_)
DigitPrefix(s) ==
    IF s = <<>> \/ ~IsDigit(Head(s)) THEN <<>>
    ELSE <<Head(s)>> \o DigitPrefix(Tail(s))

RECURSIVE DigitsValue(_, _)
DigitsValue(ds, acc) ==
    IF ds = <<>> THEN acc
    ELSE DigitsValue(Tail(ds), Big(acc.hi * 10, acc.lo * 10 + DigitVal(Head(ds))))

\* A Date holds a time value of at most 8.64e15 in magnitude; new Date(t)
\* of a number beyond that is an Invalid Date, whose getTime() is NaN and
\* which every comparison finds false.  Beyond stands for every unsigned
\* numeral of seventeen digits or more (at least 1e16); it is compared but
\* never computed with.
Beyond == Big(2147483647, 0)
IsValidDate(d) == d # Beyond

\* parseFloat(v): an optional sign and the longest prefix of digits; NaN
\* (<<>>) when there is none, else <<n>>.  Cells hold no '.', 'e' or blank.
ParseFloat(v) ==
    LET neg == v # <<>> /\ Head(v) = "-"
        body == IF neg THEN Tail(v) ELSE v
        ds == DigitPrefix(body)
        n == IF Len(ds) > 16 THEN Beyond ELSE DigitsValue(ds, Big(0, 0))
    IN  IF ds = <<>> THEN NaN ELSE <<IF neg THEN BigNeg(n) ELSE n>>

\* days from 1970-01-01 to the civil date y-m-d (proleptic Gregorian)
DaysFromCivil(y, m, d) ==
    LET yy == IF m <= 2 THEN y - 1 ELSE y
        era == yy \div 400
        yoe == yy - era * 400
        mp == IF m > 2 THEN m - 3 ELSE m + 9
        doy == (153 * mp + 2) \div 5 + d - 1
        doe == yoe * 365 + yoe \div 4 - yoe \div 100 + doy
    IN  era * 146097 + doe - 719468

\* epoch milliseconds of midnight UTC of a day number
DayInstant(days) == BigTimes(Big(0, days * 86400), 1000)

AllDigits(s, from, to) == \A i \in from..to : IsDigit(s[i])
Num2(s, i) == 10 * DigitVal(s[i]) + DigitVal(s[i + 1])
Num4(s, i) == 100 * Num2(s, i) + Num2(s, i + 2)

\* new Date(s).getTime() for a string: the ECMAScript date-only forms YYYY
\* and YYYY-MM-DD are UTC midnight; every other string of the model's cells
\* (text, empty, digit strings of nine digits or more) is an Invalid Date.
DateParse(s) ==
    IF Len(s) = 4 /\ AllDigits(s, 1, 4)
    THEN <<DayInstant(DaysFromCivil(Num4(s, 1), 1, 1))>>
    ELSE IF /\ Len(s) = 10
            /\ AllDigits(s, 1, 4) /\ AllDigits(s, 6, 7) /\ AllDigits(s, 9, 10)
            /\ s[5] = "-" /\ s[8] = "-"
            /\ Num2(s, 6) \in 1..12 /\ Num2(s, 9) \in 1..31
    THEN <<DayInstant(DaysFromCivil(Num4(s, 1), Num2(s, 6), Num2(s, 9)))>>
    ELSE NaN

(***************************************************************************)
(* convertTimestamp (App.jsx 317-345).  clock is what new Date() returns.  *)
(***************************************************************************)
gpsEpoch == DayInstant(DaysFromCivil(1980, 1, 6))
\* GpsLimit moved up by one: the comparison num <= 1000000000
GpsLimitInclusive == Big(1000, 1)
GpsLimit == Big(1000, 0)        \* 1000000000
SecondsLimit == Big(10000, 0)   \* 10000000000

convertTimestamp(timestamp, clock) ==
    IF Falsy(timestamp) THEN clock
    ELSE IF ~IsNaN(DateParse(timestamp)) THEN DateParse(timestamp)[1]
    ELSE LET num == ParseFloat(timestamp) IN
         IF IsNaN(num)
         THEN (IF ~IsNaN(DateParse(timestamp)) THEN DateParse(timestamp)[1] ELSE clock)
         ELSE IF BigLT(num[1], GpsLimit) THEN BigAdd(gpsEpoch, BigTimes(num[1], 1000))
         ELSE IF BigLT(num[1], SecondsLimit) THEN BigTimes(num[1], 1000)
         ELSE num[1]

(***************************************************************************)
(* Exact rationals: the means the smoother returns.  0/0 is NaN.           *)
(***************************************************************************)
Abs(n) == IF n < 0 THEN -n ELSE n
RECURSIVE Gcd(_, _)
Gcd(a, b) == IF b = 0 THEN a ELSE Gcd(b, a % b)
Rat(n, d) == LET g == Gcd(Abs(n), d) IN [num |-> n \div g, den |-> d \div g]
RatNaN == [num |-> 0, den |-> 0]
RatLE(p, q) == p.num * q.den <= q.num * p.den
RatLT(p, q) == p.num * q.den < q.num * p.den

RECURSIVE SumSeq(_)
SumSeq(s) == IF s = <<>> THEN 0 ELSE Head(s) + SumSeq(Tail(s))

Max2(a, b) == IF a >= b THEN a ELSE b

(***************************************************************************)
(* movingAverage (App.jsx 8-15, DataProcessor.jsx 6-13).  idx is 1-based.  *)
(***************************************************************************)
\* WindowStart one index early: a window of windowSize + 1 values
WindowStartEarly(idx, windowSize) == Max2(1, idx - windowSize)

WindowStart(idx, windowSize) == Max2(1, idx - windowSize + 1)

movingAverage(values, windowSize) ==
    [idx \in 1..Len(values) |->
        LET start == WindowStart(idx, windowSize)
            slice == SubSeq(values, start, idx)
        IN  Rat(SumSeq(slice), Len(slice))]

(***************************************************************************)
(* timeBasedMovingAverage (App.jsx 17-32).  A data point is                *)
(* [timestamp |-> instant, value |-> <<v>>], value <<>> when the y array   *)
(* has no element at that index (undefined, which sums to NaN).            *)
(***************************************************************************)
HoursMs(hours) == BigTimes(Big(0, hours * 3600), 1000)

InTimeWindow(dataPoints, pIdx, idx, hoursWindow) ==
    /\ pIdx <= idx
    /\ BigLE(BigSub(dataPoints[idx].timestamp, HoursMs(hoursWindow)),
             dataPoints[pIdx].timestamp)

timeBasedMovingAverage(dataPoints, hoursWindow) ==
    [idx \in 1..Len(dataPoints) |->
        LET windowPoints == SelectSeq([p \in 1..Len(dataPoints) |-> p],
                LAMBDA p : InTimeWindow(dataPoints, p, idx, hoursWindow))
            vals == [k \in 1..Len(windowPoints) |-> dataPoints[windowPoints[k]].value]
        IN  IF Len(windowPoints) = 0
            THEN (IF dataPoints[idx].value = <<>> THEN RatNaN
                  ELSE Rat(dataPoints[idx].value[1], 1))
            ELSE IF \E k \in 1..Len(vals) : vals[k] = <<>> THEN RatNaN
            ELSE Rat(SumSeq([k \in 1..Len(vals) |-> vals[k][1]]), Len(vals))]

(***************************************************************************)
(* makeRelativeToZero (App.jsx 35-56, DataProcessor.jsx 28-43).  A value   *)
(* is a JS number [num |-> n] or a JS string [str |-> s].                  *)
(***************************************************************************)
JNum(n) == [num |-> n]
JStr(s) == [str |-> s]
IsJNum(v) == DOMAIN v = {"num"}

\* Number(v): a number is itself; the empty string is 0; a string that is
\* an optional sign and digits, and nothing else, is its value; else NaN.
Number(v) ==
    IF IsJNum(v) THEN <<v.num>>
    ELSE LET s == v.str
             neg == s # <<>> /\ Head(s) = "-"
             body == IF neg THEN Tail(s) ELSE s
         IN  IF s = <<>> THEN <<0>>
             ELSE IF body # <<>> /\ DigitPrefix(body) = body
             THEN <<IF neg THEN -Small(DigitsValue(body, Big(0, 0)))
                    ELSE Small(DigitsValue(body, Big(0, 0)))>>
             ELSE NaN

\* FirstValid that takes 0 as the baseline when there is a valid number
RECURSIVE FirstValidZero(_)
FirstValidZero(values) ==
    IF values = <<>> THEN <<>>
    ELSE IF ~IsNaN(Number(Head(values))) THEN <<0>>
    ELSE FirstValidZero(Tail(values))

\* the loop of lines 39-46: the first element that is a number, or null (<<>>)
RECURSIVE FirstValid(_)
FirstValid(values) ==
    IF values = <<>> THEN <<>>
    ELSE IF ~IsNaN(Number(Head(values))) THEN Number(Head(values))
    ELSE FirstValid(Tail(values))

makeRelativeToZero(values) ==
    IF Len(values) = 0 THEN values
    ELSE LET firstValidValue == FirstValid(values) IN
         IF firstValidValue = <<>> THEN values
         ELSE [i \in 1..Len(values) |->
                 IF IsNaN(Number(values[i])) THEN values[i]
                 ELSE JNum(Number(values[i])[1] - firstValidValue[1])]

(***************************************************************************)
(* calculateStatistics (App.jsx 58-73) on an array of integers.  A value   *)
(* that the code formats with toFixed(4) is the integer number of          *)
(* ten-thousandths that the decimal string spells: "1.3333" is 13333.  The *)
(* zeros of the empty case are numbers, not strings.                       *)
(***************************************************************************)
Scale4 == 10000

\* [...data].sort((a, b) => a - b)
RECURSIVE SortAscending(_)
SortAscending(values) ==
    IF values = <<>> THEN <<>>
    ELSE LET least == CHOOSE i \in 1..Len(values) :
                         \A j \in 1..Len(values) : values[i] <= values[j]
         IN  <<values[least]>> \o
             SortAscending(SubSeq(values, 1, least - 1)
                           \o SubSeq(values, least + 1, Len(values)))

\* Math.min(...data) and Math.max(...data)
RECURSIVE MathMin(_)
MathMin(values) ==
    IF Len(values) = 1 THEN values[1]
    ELSE LET m == MathMin(Tail(values)) IN IF Head(values) < m THEN Head(values) ELSE m
RECURSIVE MathMax(_)
MathMax(values) ==
    IF Len(values) = 1 THEN values[1]
    ELSE LET m == MathMax(Tail(values)) IN IF Head(values) > m THEN Head(values) ELSE m

\* (n / d).toFixed(4) for d > 0: the nearest multiple of 0.0001, a tie away
\* from zero
ToFixed4(n, d) ==
    LET q == (2 * Abs(n) * Scale4 + d) \div (2 * d)
    IN  IF n < 0 THEN -q ELSE q

\* floor(sqrt(n)) for a small n
FloorSqrt(n) == CHOOSE r \in 0..n : r * r <= n /\ (r + 1) * (r + 1) > n

\* one more decimal digit of a square root: root and remainder rem of the
\* radicand so far, two more (zero) digits of the radicand brought down
NextRootDigit(st) ==
    LET rem == st.rem * 100
        d == CHOOSE k \in 0..9 :
                 /\ (20 * st.root + k) * k <= rem
                 /\ (k = 9 \/ (20 * st.root + k + 1) * (k + 1) > rem)
    IN  [root |-> 10 * st.root + d, rem |-> rem - (20 * st.root + d) * d]

\* floor(sqrt(n) * 10^4) with the remainder n * 10^8 - root^2
RootTimesScale4(n) ==
    LET first == [root |-> FloorSqrt(n), rem |-> n - FloorSqrt(n) * FloorSqrt(n)]
    IN  NextRootDigit(NextRootDigit(NextRootDigit(NextRootDigit(first))))

\* Math.sqrt(variance).toFixed(4), where variance is dev / count^2 and
\* dev == count * sum(x^2) - sum(x)^2
StdDevToFixed4(dev, count) ==
    (RootTimesScale4(4 * dev).root + count) \div (2 * count)

\* a median of the lower middle: sorted[floor((length - 1) / 2)]
LowerMedianIndex(length) == ((length - 1) \div 2) + 1

\* Math.floor(sorted.length / 2), as a 1-based index
MedianIndex(length) == (length \div 2) + 1

calculateStatistics(values) ==
    IF Len(values) = 0
    THEN [mean |-> 0, stdDev |-> 0, min |-> 0, max |-> 0, median |-> 0, count |-> 0]
    ELSE LET sorted == SortAscending(values)
             count == Len(values)
             sum == SumSeq(values)
             squares == SumSeq([i \in 1..count |-> values[i] * values[i]])
         IN  [mean |-> ToFixed4(sum, count),
              stdDev |-> StdDevToFixed4(count * squares - sum * sum, count),
              min |-> ToFixed4(MathMin(values), 1),
              max |-> ToFixed4(MathMax(values), 1),
              median |-> ToFixed4(sorted[MedianIndex(Len(sorted))], 1),
              count |-> count]

(***************************************************************************)
(* detectOutliers (App.jsx 180-195) on an array of integers.  The bounds   *)
(* q1 - 1.5 * iqr and q3 + 1.5 * iqr are halves of integers, so a value is *)
(* compared with them doubled.                                             *)
(***************************************************************************)
\* Math.floor(sorted.length * 0.25) and Math.floor(sorted.length * 0.75),
\* as 1-based indices
Q1Index(length) == (length \div 4) + 1
\* the upper quartile index rounded to the nearest instead of floored
Q3IndexRounded(length) == ((3 * length + 2) \div 4) + 1
Q3Index(length) == ((3 * length) \div 4) + 1

detectOutliers(values) ==
    IF Len(values) < 4 THEN <<>>
    ELSE LET sorted == SortAscending(values)
             q1 == sorted[Q1Index(Len(sorted))]
             q3 == sorted[Q3Index(Len(sorted))]
             iqr == q3 - q1
             twiceLower == 2 * q1 - 3 * iqr
             twiceUpper == 2 * q3 + 3 * iqr
             items == [idx \in 1..Len(values) |->
                         [index |-> idx - 1, value |-> values[idx],
                          isOutlier |-> 2 * values[idx] < twiceLower
                                        \/ 2 * values[idx] > twiceUpper]]
             Flagged(item) == item.isOutlier
         IN  SelectSeq(items, Flagged)

(***************************************************************************)
(* detectTrend (App.jsx 133-146) and detectSeasonality (148-178) on an     *)
(* array of integers.  The ratios are compared cross-multiplied.           *)
(***************************************************************************)
detectTrend(values) ==
    IF Len(values) < 3 THEN "none"
    ELSE LET increasing == Cardinality({ i \in 2..Len(values) : values[i] > values[i - 1] })
             decreasing == Cardinality({ i \in 2..Len(values) : values[i] < values[i - 1] })
             total == Len(values) - 1
         IN  IF 10 * increasing > 7 * total THEN "increasing"
             ELSE IF 10 * decreasing > 7 * total THEN "decreasing"
             ELSE "stable"

\* const periods = [7, 12, 24, 30]
SeasonPeriods == <<7, 12, 24, 30>>

\* LowVariance with the sample variance (the squares divided by n - 1)
LowVarianceOfSample(values, period, cycles, i) ==
    LET cycleValues == [j \in 1..cycles |-> values[i + (j - 1) * period + 1]]
        n == Len(cycleValues)
        s == SumSeq(cycleValues)
        q == SumSeq([j \in 1..n |-> cycleValues[j] * cycleValues[j]])
    IN  n > 1 /\ 10 * (n * q - s * s) < (n - 1) * s

\* variance < mean * 0.1 for the values at offset i (0-based) of each of the
\* cycles: with n values of sum s and sum of squares q, the variance is
\* (n * q - s * s) / n^2 and the mean s / n
LowVariance(values, period, cycles, i) ==
    LET cycleValues == [j \in 1..cycles |-> values[i + (j - 1) * period + 1]]
        n == Len(cycleValues)
        s == SumSeq(cycleValues)
        q == SumSeq([j \in 1..n |-> cycleValues[j] * cycleValues[j]])
    IN  n > 1 /\ 10 * (n * q - s * s) < n * s

\* the periods from the k-th on; <<>> is false, <<period>> a period found
RECURSIVE SeasonFrom(_, _)
SeasonFrom(values, k) ==
    IF k > Len(SeasonPeriods) THEN <<>>
    ELSE LET period == SeasonPeriods[k]
             cycles == Len(values) \div period
             correlation == IF cycles > 1
                            THEN Cardinality({ i \in 0..(period - 1) :
                                                 LowVariance(values, period, cycles, i) })
                            ELSE 0
         IN  IF Len(values) >= period * 2 /\ 5 * correlation > 3 * period
             THEN <<period>>
             ELSE SeasonFrom(values, k + 1)

detectSeasonality(values) ==
    IF Len(values) < 12 THEN <<>> ELSE SeasonFrom(values, 1)

(***************************************************************************)
(* Column names.  A header is a TLA+ string; NameChars spells it so that   *)
(* toLowerCase().includes(...) is computed on its characters.              *)
(***************************************************************************)
NameChars(col) ==
    CASE col = "Epoch" -> <<"E", "p", "o", "c", "h">>
      [] col = "Easting" -> <<"E", "a", "s", "t", "i", "n", "g">>
      [] col = "Northing" -> <<"N", "o", "r", "t", "h", "i", "n", "g">>
      [] col = "PointName" -> <<"P", "o", "i", "n", "t", "N", "a", "m", "e">>
      [] col = "Width" -> <<"W", "i", "d", "t", "h">>
      [] OTHER -> <<>>

UpperLetters == <<"E", "N", "P", "W">>
LowerLetters == <<"e", "n", "p", "w">>
LowerChar(c) ==
    IF \E i \in 1..Len(UpperLetters) : UpperLetters[i] = c
    THEN LowerLetters[CHOOSE i \in 1..Len(UpperLetters) : UpperLetters[i] = c]
    ELSE c
ToLowerCase(s) == [i \in 1..Len(s) |-> LowerChar(s[i])]
Includes(s, sub) ==
    \E i \in 0..(Len(s) - Len(sub)) : SubSeq(s, i + 1, i + Len(sub)) = sub

\* the predicate of dataColumns.find (App.jsx 507-512 and 632-637)
IsGroupingName(col) ==
    LET lower == ToLowerCase(NameChars(col)) IN
    \/ Includes(lower, <<"p", "o", "i", "n", "t">>)
    \/ Includes(lower, <<"n", "a", "m", "e">>)
    \/ Includes(lower, <<"i", "d">>)
    \/ Includes(lower, <<"s", "t", "a", "t", "i", "o", "n">>)

\* Array.prototype.find: <<col>> for the first match, <<>> for undefined
groupingColumn ==
    LET hits == SelectSeq(dataColumns, IsGroupingName) IN
    IF hits = <<>> THEN <<>> ELSE <<Head(hits)>>

\* a predicate that does not look for 'id'
IsGroupingNameWithoutId(col) ==
    LET lower == ToLowerCase(NameChars(col)) IN
    \/ Includes(lower, <<"p", "o", "i", "n", "t">>)
    \/ Includes(lower, <<"n", "a", "m", "e">>)
    \/ Includes(lower, <<"s", "t", "a", "t", "i", "o", "n">>)

\* the predicate of the dual-axis branch (App.jsx 507-512)
IsGroupingNameDual(col) ==
    LET lower == ToLowerCase(NameChars(col)) IN
    \/ Includes(lower, <<"p", "o", "i", "n", "t">>)
    \/ Includes(lower, <<"n", "a", "m", "e">>)
    \/ Includes(lower, <<"i", "d">>)
    \/ Includes(lower, <<"s", "t", "a", "t", "i", "o", "n">>)

\* the groupingColumn of the dual-axis branch
groupingColumnDual ==
    LET hits == SelectSeq(dataColumns, IsGroupingNameDual) IN
    IF hits = <<>> THEN <<>> ELSE <<Head(hits)>>

(***************************************************************************)
(* filteredData (App.jsx 484-496).                                         *)
(***************************************************************************)
Cell(row, col) == IF col \in DOMAIN row THEN row[col] ELSE Undefined

\* KeepRow with exclusive bounds: a row on a bound is dropped
KeepRowExclusive(row) ==
    LET date == convertTimestamp(Cell(row, selectedX), now) IN
    /\ ~(startDate # <<>> /\ BigLE(date, startDate[1]))
    /\ ~(endDate # <<>> /\ BigLE(endDate[1], date))

\* the callback of data.filter (lines 487-495); an Invalid Date is below no
\* bound and above none, and its row is kept
KeepRow(row) ==
    LET date == convertTimestamp(Cell(row, selectedX), now) IN
    /\ ~(startDate # <<>> /\ IsValidDate(date) /\ BigLT(date, startDate[1]))
    /\ ~(endDate # <<>> /\ IsValidDate(date) /\ BigLT(endDate[1], date))

filteredData ==
    IF Len(data) = 0 \/ (startDate = <<>> /\ endDate = <<>>) THEN data
    ELSE SelectSeq(data, KeepRow)

(***************************************************************************)
(* The grouping object of chartData (App.jsx 516-523 and 641-648) and the  *)
(* order in which Object.entries lists its keys: the keys that are array   *)
(* indices in ascending numeric order, then the others in insertion order. *)
(* Key values that name a property of Object.prototype are not modelled.   *)
(***************************************************************************)
\* PushRow that overwrites the rows of an existing group
PushRowReplacing(acc, groupKey, row) ==
    IF \E g \in 1..Len(acc) : acc[g].key = groupKey
    THEN [g \in 1..Len(acc) |->
            IF acc[g].key = groupKey
            THEN [key |-> groupKey, rows |-> <<row>>]
            ELSE acc[g]]
    ELSE Append(acc, [key |-> groupKey, rows |-> <<row>>])

\* groupedData[groupKey].push(row), after the group was created if absent
\* (lines 519-522 and 644-647); acc lists the groups in insertion order
PushRow(acc, groupKey, row) ==
    IF \E g \in 1..Len(acc) : acc[g].key = groupKey
    THEN [g \in 1..Len(acc) |->
            IF acc[g].key = groupKey
            THEN [key |-> groupKey, rows |-> Append(acc[g].rows, row)]
            ELSE acc[g]]
    ELSE Append(acc, [key |-> groupKey, rows |-> <<row>>])

\* filteredData.forEach(row => ...)
RECURSIVE GroupRows(_, _, _)
GroupRows(rows, col, acc) ==
    IF rows = <<>> THEN acc
    ELSE GroupRows(Tail(rows), col, PushRow(acc, Cell(Head(rows), col), Head(rows)))

IsArrayIndex(k) ==
    /\ k # <<>>
    /\ DigitPrefix(k) = k
    /\ (Len(k) = 1 \/ Head(k) # "0")
    /\ Len(k) <= 10
    /\ BigLT(DigitsValue(k, Big(0, 0)), Big(4294, 967295))

IndexLT(a, b) == BigLT(DigitsValue(a.key, Big(0, 0)), DigitsValue(b.key, Big(0, 0)))

RECURSIVE SortIndices(_)
SortIndices(entries) ==
    IF entries = <<>> THEN <<>>
    ELSE LET least == CHOOSE i \in 1..Len(entries) :
                         \A j \in 1..Len(entries) : ~IndexLT(entries[j], entries[i])
         IN  <<entries[least]>> \o
             SortIndices(SubSeq(entries, 1, least - 1)
                         \o SubSeq(entries, least + 1, Len(entries)))

HasIndexKey(entry) == IsArrayIndex(entry.key)
HasStringKey(entry) == ~IsArrayIndex(entry.key)

\* Object.entries(obj) of an object whose properties were created in the
\* order of insertion
ObjectEntries(insertion) ==
    SortIndices(SelectSeq(insertion, HasIndexKey)) \o SelectSeq(insertion, HasStringKey)

\* Object.entries(groupedData): <<[key, rows]>> in property order
groupedData(rows, col) == ObjectEntries(GroupRows(rows, col, <<>>))

(***************************************************************************)
(* The pieces of chartData (App.jsx 499-792).                              *)
(***************************************************************************)
COLOR_PALETTE ==
    <<"#038357", "#FF6B6B", "#4ECDC4", "#45B7D1", "#96CEB4", "#FFEAA7",
      "#DDA0DD", "#98D8C8", "#F7DC6F", "#BB8FCE", "#85C1E9",
      "#FF8A80", "#80CBC4", "#81C784", "#FFB74D", "#F06292",
      "#9575CD", "#64B5F6", "#4DB6AC", "#AED581", "#FFD54F",
      "#A1887F", "#90A4AE", "#EF5350", "#26A69A", "#66BB6A",
      "#FFA726", "#EC407A", "#AB47BC", "#42A5F5", "#26C6DA">>
PaletteColor(colorIndex) == COLOR_PALETTE[(colorIndex % Len(COLOR_PALETTE)) + 1]

\* rows.map(row => convertTimestamp(row[selectedX]))
XValues(rows) ==
    [i \in 1..Len(rows) |-> convertTimestamp(Cell(rows[i], selectedX), now)]

\* rows.map(row => parseFloat(row[col])).filter(val => !isNaN(val))
NotNaN(n) == ~IsNaN(n)
NumericValues(rows, col) ==
    LET parsed == [i \in 1..Len(rows) |-> ParseFloat(Cell(rows[i], col))]
        valid == SelectSeq(parsed, NotNaN)
    IN  [i \in 1..Len(valid) |-> Small(valid[i][1])]

\* InlineRelativeToZero that rebases on the last value instead of the first
InlineRelativeToLast(values) ==
    IF relativeToZero /\ Len(values) > 0
    THEN [i \in 1..Len(values) |-> values[i] - values[Len(values)]]
    ELSE values

\* the inline rebasing of lines 539-558, 663-684 and 741-762, applied to an
\* array of numbers: the first element is the first valid number
InlineRelativeToZero(values) ==
    IF relativeToZero /\ Len(values) > 0
    THEN [i \in 1..Len(values) |-> values[i] - values[1]]
    ELSE values

\* makeRelativeToZero([...values]) on an array of numbers (lines 603-604)
RebaseNumbers(values) ==
    LET out == makeRelativeToZero([i \in 1..Len(values) |-> JNum(values[i])])
    IN  [i \in 1..Len(out) |-> out[i].num]

\* type and mode of a raw single-axis trace (lines 689-690 and 767-768)
RawType == IF chartType = "line" THEN "scatter" ELSE chartType
RawMode == IF chartType = "line" THEN "lines+markers" ELSE "markers"

SmoothGate == IF smoothingType = "count" THEN smoothingWindow ELSE 2

\* the traces of one group in single-axis mode (lines 654-731)
GroupTraces(groupName, groupRows, colorIndex) ==
    LET xValues == XValues(groupRows)
        yValues == NumericValues(groupRows, selectedY)
        finalYValues == InlineRelativeToZero(yValues)
        baseTrace == [x |-> xValues, y |-> finalYValues,
                      type |-> RawType, mode |-> RawMode,
                      name |-> [group |-> <<groupName>>, column |-> selectedY,
                                smoothed |-> FALSE],
                      color |-> PaletteColor(colorIndex),
                      dash |-> "solid", symbol |-> "circle", yaxis |-> "y"]
        dataPoints == [idx \in 1..Len(xValues) |->
                         [timestamp |-> xValues[idx],
                          value |-> IF idx <= Len(finalYValues)
                                    THEN <<finalYValues[idx]>> ELSE <<>>]]
        smoothedY == IF smoothingType = "time"
                     THEN timeBasedMovingAverage(dataPoints, smoothingHours)
                     ELSE movingAverage(finalYValues, smoothingWindow)
        smoothTrace == [x |-> xValues, y |-> smoothedY,
                        type |-> "scatter", mode |-> "lines",
                        name |-> [group |-> <<groupName>>, column |-> selectedY,
                                  smoothed |-> TRUE],
                        color |-> PaletteColor(colorIndex),
                        dash |-> "dash", symbol |-> "circle", yaxis |-> "y"]
    IN  IF Len(xValues) > 0 /\ Len(yValues) > 0
        THEN <<baseTrace>> \o
             (IF showSmooth /\ Len(yValues) > SmoothGate THEN <<smoothTrace>> ELSE <<>>)
        ELSE <<>>

\* the traces of one group in dual-axis mode (lines 529-593)
DualGroupTraces(groupName, groupRows, colorIndex) ==
    LET xValues == XValues(groupRows)
        y1Values == NumericValues(groupRows, selectedY)
        y2Values == NumericValues(groupRows, selectedY2)
        finalY1Values == InlineRelativeToZero(y1Values)
        finalY2Values == InlineRelativeToZero(y2Values)
    IN  IF Len(xValues) > 0 /\ Len(y1Values) > 0
        THEN << [x |-> xValues, y |-> finalY1Values,
                 type |-> "scatter", mode |-> "lines+markers",
                 name |-> [group |-> <<groupName>>, column |-> selectedY,
                           smoothed |-> FALSE],
                 color |-> PaletteColor(colorIndex),
                 dash |-> "solid", symbol |-> "circle", yaxis |-> "y"],
                [x |-> xValues,
                 y |-> IF Len(finalY2Values) > 0 THEN finalY2Values ELSE y2Values,
                 type |-> "scatter", mode |-> "lines+markers",
                 name |-> [group |-> <<groupName>>, column |-> selectedY2,
                           smoothed |-> FALSE],
                 color |-> "#038357",
                 dash |-> "dash", symbol |-> "square", yaxis |-> "y2"] >>
        ELSE <<>>

\* the forEach over Object.entries(groupedData): colorIndex advances only
\* past a group that pushed traces
RECURSIVE EachGroup(_, _, _, _)
EachGroup(entries, g, colorIndex, dual) ==
    IF g > Len(entries) THEN <<>>
    ELSE LET pushed == IF dual
                       THEN DualGroupTraces(entries[g].key, entries[g].rows, colorIndex)
                       ELSE GroupTraces(entries[g].key, entries[g].rows, colorIndex)
         IN  pushed \o EachGroup(entries, g + 1,
                                 IF pushed = <<>> THEN colorIndex ELSE colorIndex + 1, dual)

\* groupingColumn && filteredData.some(row => row[groupingColumn])
IsGrouped ==
    /\ groupingColumn # <<>>
    /\ \E i \in 1..Len(filteredData) : ~Falsy(Cell(filteredData[i], groupingColumn[1]))

\* the same test in the dual-axis branch (line 514)
IsGroupedDual ==
    /\ groupingColumnDual # <<>>
    /\ \E i \in 1..Len(filteredData) : ~Falsy(Cell(filteredData[i], groupingColumnDual[1]))

\* DualUngroupedTraces that rebases the secondary values on the first
\* primary value
DualUngroupedTracesSharedBaseline ==
    LET xValues == XValues(filteredData)
        y1Values == NumericValues(filteredData, selectedY)
        y2Values == NumericValues(filteredData, selectedY2)
        finalY1Values == IF relativeToZero THEN RebaseNumbers(y1Values) ELSE y1Values
        finalY2Values == IF relativeToZero /\ Len(y1Values) > 0
                         THEN [i \in 1..Len(y2Values) |-> y2Values[i] - y1Values[1]]
                         ELSE y2Values
    IN  << [x |-> xValues, y |-> finalY1Values,
            type |-> "scatter", mode |-> "lines+markers",
            name |-> [group |-> <<>>, column |-> selectedY, smoothed |-> FALSE],
            color |-> COLOR_PALETTE[1],
            dash |-> "solid", symbol |-> "circle", yaxis |-> "y"],
           [x |-> xValues, y |-> finalY2Values,
            type |-> "scatter", mode |-> "lines+markers",
            name |-> [group |-> <<>>, column |-> selectedY2, smoothed |-> FALSE],
            color |-> COLOR_PALETTE[2],
            dash |-> "dash", symbol |-> "square", yaxis |-> "y2"] >>

\* lines 597-627
DualUngroupedTraces ==
    LET xValues == XValues(filteredData)
        y1Values == NumericValues(filteredData, selectedY)
        y2Values == NumericValues(filteredData, selectedY2)
        finalY1Values == IF relativeToZero THEN RebaseNumbers(y1Values) ELSE y1Values
        finalY2Values == IF relativeToZero THEN RebaseNumbers(y2Values) ELSE y2Values
    IN  << [x |-> xValues, y |-> finalY1Values,
            type |-> "scatter", mode |-> "lines+markers",
            name |-> [group |-> <<>>, column |-> selectedY, smoothed |-> FALSE],
            color |-> COLOR_PALETTE[1],
            dash |-> "solid", symbol |-> "circle", yaxis |-> "y"],
           [x |-> xValues, y |-> finalY2Values,
            type |-> "scatter", mode |-> "lines+markers",
            name |-> [group |-> <<>>, column |-> selectedY2, smoothed |-> FALSE],
            color |-> COLOR_PALETTE[2],
            dash |-> "dash", symbol |-> "square", yaxis |-> "y2"] >>

\* lines 735-790
UngroupedTraces ==
    LET xValues == XValues(filteredData)
        yValues == NumericValues(filteredData, selectedY)
        finalYValues == InlineRelativeToZero(yValues)
        baseTrace == [x |-> xValues, y |-> finalYValues,
                      type |-> RawType, mode |-> RawMode,
                      name |-> [group |-> <<>>, column |-> selectedY,
                                smoothed |-> FALSE],
                      color |-> COLOR_PALETTE[1],
                      dash |-> "solid", symbol |-> "circle", yaxis |-> "y"]
        smoothTrace == [x |-> xValues, y |-> movingAverage(yValues, smoothingWindow),
                        type |-> "scatter", mode |-> "lines",
                        name |-> [group |-> <<>>, column |-> selectedY,
                                  smoothed |-> TRUE],
                        color |-> COLOR_PALETTE[2],
                        dash |-> "solid", symbol |-> "circle", yaxis |-> "y"]
    IN  <<baseTrace>> \o
        (IF showSmooth /\ Len(yValues) > smoothingWindow THEN <<smoothTrace>> ELSE <<>>)

chartData ==
    IF Len(filteredData) = 0 THEN <<>>
    ELSE IF chartType = "dual_axis"
    THEN (IF IsGroupedDual
          THEN EachGroup(groupedData(filteredData, groupingColumnDual[1]), 1, 0, TRUE)
          ELSE DualUngroupedTraces)
    ELSE (IF IsGrouped
          THEN EachGroup(groupedData(filteredData, groupingColumn[1]), 1, 0, FALSE)
          ELSE UngroupedTraces)

(***************************************************************************)
(* calculateOptimalDateRange (App.jsx 76-93).  The instants of the model   *)
(* are not negative, and new Date(t) truncates the padded bound to whole   *)
(* milliseconds.  The sort of line 82 is read at its two ends only.        *)
(***************************************************************************)
\* the first date as it stands, as if the dates were never sorted
FirstInstant(ds) == ds[1]

RECURSIVE MinInstant(_)
MinInstant(ds) ==
    IF Len(ds) = 1 THEN ds[1]
    ELSE LET m == MinInstant(Tail(ds)) IN IF BigLT(m, Head(ds)) THEN m ELSE Head(ds)
RECURSIVE MaxInstant(_)
MaxInstant(ds) ==
    IF Len(ds) = 1 THEN ds[1]
    ELSE LET m == MaxInstant(Tail(ds)) IN IF BigLT(Head(ds), m) THEN m ELSE Head(ds)

calculateOptimalDateRange(rows, xColumn, clock) ==
    IF Len(rows) = 0 THEN [start |-> <<>>, end |-> <<>>]
    ELSE LET converted == [i \in 1..Len(rows) |->
                              convertTimestamp(Cell(rows[i], xColumn), clock)]
             dates == SelectSeq(converted, IsValidDate)
         IN
         IF Len(dates) = 0 THEN [start |-> <<>>, end |-> <<>>]
         ELSE
         LET first == MinInstant(dates)
             last == MaxInstant(dates)
             range == BigSub(last, first)
         IN  \* padding = range * 0.05
             [start |-> <<BigDiv(BigSub(BigTimes(first, 20), range), 20)>>,
              end |-> <<BigDiv(BigAdd(BigTimes(last, 20), range), 20)>>]

(***************************************************************************)
(* detectDataPatterns (App.jsx 109-131).  The object patterns is the       *)
(* sequence of its entries [col, pattern] in insertion order.  stats holds *)
(* ten-thousandths, so range does too.  cv = stdDev / mean is compared     *)
(* cross-multiplied: a mean of 0 makes it Infinity (stdDev > 0, 'high') or *)
(* NaN (0 / 0, 'low'), a negative mean makes it negative ('low').  A mean  *)
(* that toFixed(4) spells "-0.0000" needs more than 20000 integers and is  *)
(* not modelled.                                                           *)
(***************************************************************************)
\* Volatility that classifies every mean of 0 as 'low'
VolatilityOfZeroMeanLow(stats) ==
    IF stats.mean > 0
    THEN (IF 2 * stats.stdDev > stats.mean THEN "high"
          ELSE IF 5 * stats.stdDev > stats.mean THEN "medium"
          ELSE "low")
    ELSE "low"

Volatility(stats) ==
    IF stats.mean > 0
    THEN (IF 2 * stats.stdDev > stats.mean THEN "high"
          ELSE IF 5 * stats.stdDev > stats.mean THEN "medium"
          ELSE "low")
    ELSE IF stats.mean = 0 /\ stats.stdDev > 0 THEN "high"
    ELSE "low"

RangeScale(range) ==
    IF range > 1000 * Scale4 THEN "large"
    ELSE IF range > 100 * Scale4 THEN "medium"
    ELSE "small"

PatternOf(values) ==
    LET stats == calculateStatistics(values)
        range == stats.max - stats.min
    IN  [volatility |-> Volatility(stats),
         trend |-> detectTrend(values),
         seasonality |-> detectSeasonality(values),
         outliers |-> detectOutliers(values),
         range |-> range,
         scale |-> RangeScale(range)]

RECURSIVE detectDataPatterns(_, _)
detectDataPatterns(rows, columns) ==
    IF columns = <<>> THEN <<>>
    ELSE LET col == Head(columns)
             values == NumericValues(rows, col)
         IN  (IF Len(values) = 0 THEN <<>>
              ELSE <<[col |-> col, pattern |-> PatternOf(values)]>>)
             \o detectDataPatterns(rows, Tail(columns))

\* the insight strings of one entry (App.jsx 293-310); n is the period or
\* the number of outliers the string spells
InsightsOf(entry) ==
    LET col == entry.col
        pattern == entry.pattern
    IN  (IF pattern.trend = "increasing"
         THEN <<[kind |-> "increasing trend", col |-> col, n |-> 0]>>
         ELSE IF pattern.trend = "decreasing"
         THEN <<[kind |-> "decreasing trend", col |-> col, n |-> 0]>>
         ELSE <<>>)
        \o (IF pattern.volatility = "high"
            THEN <<[kind |-> "high volatility", col |-> col, n |-> 0]>>
            ELSE <<>>)
        \o (IF pattern.seasonality # <<>>
            THEN <<[kind |-> "seasonal pattern", col |-> col,
                    n |-> pattern.seasonality[1]]>>
            ELSE <<>>)
        \o (IF Len(pattern.outliers) > 0
            THEN <<[kind |-> "outliers detected", col |-> col,
                    n |-> Len(pattern.outliers)]>>
            ELSE <<>>)

RECURSIVE Insights(_)
Insights(patterns) ==
    IF patterns = <<>> THEN <<>>
    ELSE InsightsOf(Head(patterns)) \o Insights(Tail(patterns))

(***************************************************************************)
(* The files of the model: CSV texts as Papa.parse returns them, a header  *)
(* and at most MaxRows rows.                                               *)
(***************************************************************************)
IsoDay(d) == <<"2", "0", "2", "4", "-", "0", "1", "-", "0", Digits[d + 1]>>
Row(t, e, n, k) == [Epoch |-> t, Easting |-> e, Northing |-> n, PointName |-> k]
Keyless(r) == [Epoch |-> r.Epoch, Easting |-> r.Easting, Northing |-> r.Northing]

KeyedRows ==
    { Row(IsoDay(1), <<"1", "0">>, <<"5">>, <<"A">>),
      Row(IsoDay(2), <<"2", "0">>, <<"7">>, <<"A">>),
      Row(IsoDay(3), <<"3", "0">>, <<"x">>, <<"B">>),
      Row(IsoDay(1), <<"a", "b", "c">>, <<"7">>, <<"B">>),
      Row(IsoDay(3), <<"1", "0">>, <<"5">>, <<"2">>),
      Row(IsoDay(2), <<"2", "0">>, <<"x">>, <<"1">>) }
KeylessRows == { Keyless(r) : r \in KeyedRows }

\* rows for the range filter: three days, and a row with no timestamp
FilterRows ==
    { [Epoch |-> t, Easting |-> <<"1", "0">>] :
          t \in {IsoDay(1), IsoDay(2), IsoDay(3), <<>>} }

SeqsUpTo(S, n) == UNION { [1..k -> S] : k \in 1..n }

ChartFiles ==
    { [columns |-> <<"Epoch", "Easting", "Northing", "PointName">>, rows |-> rs] :
          rs \in SeqsUpTo(KeyedRows, MaxRows) }
    \cup
    { [columns |-> <<"Epoch", "Easting", "Northing">>, rows |-> rs] :
          rs \in SeqsUpTo(KeylessRows, MaxRows) }

FilterFiles ==
    { [columns |-> <<"Epoch", "Easting">>, rows |-> rs] :
          rs \in SeqsUpTo(FilterRows, MaxRows) }

\* the dates a user picks in the DatePicker
DateChoices == { DayInstant(DaysFromCivil(2024, 1, 2)) }

NowBase == DayInstant(DaysFromCivil(2026, 11, 6))

(***************************************************************************)
(* The state machine.                                                      *)
(***************************************************************************)
\* the useState initial values (App.jsx 216-258)
MountInit ==
    /\ data = <<>>
    /\ dataColumns = <<>>
    /\ selectedX = "Epoch"
    /\ selectedY = "Easting"
    /\ selectedY2 = "Northing"
    /\ chartType = "line"
    /\ showSmooth = FALSE
    /\ smoothingWindow = 5
    /\ smoothingType = "count"
    /\ smoothingHours = 24
    /\ relativeToZero = FALSE
    /\ startDate = <<>>
    /\ endDate = <<>>
    /\ autoDateRange = TRUE
    /\ fileName = ""
    /\ loading = FALSE
    /\ error = <<>>
    /\ retryCount = 0
    /\ dataPatterns = <<>>
    /\ aiInsights = <<>>
    /\ uploads = <<>>
    /\ settled = <<>>

\* the first render in a browser whose localStorage is empty
AppInit ==
    /\ MountInit
    /\ recentFiles = <<>>
    /\ closureRecentFiles = <<>>
    /\ savedRecentFiles = <<>>

\* the columns of lines 380-382: some row's cell parses and is finite
IsNumericColumn(rows, col) ==
    \E i \in 1..Len(rows) :
        /\ ~IsNaN(ParseFloat(Cell(rows[i], col)))
        /\ ~IsNaN(Number(JStr(Cell(rows[i], col))))

\* a file that passes the checks of lines 371-386
Accepted(file) ==
    /\ Len(file.rows) > 0
    /\ \E c \in 1..Len(file.columns) : IsNumericColumn(file.rows, file.columns[c])

\* const numericColumns = columns.filter(...) (lines 380-382 and 930-932)
NumericColumns(rows, columns) ==
    LET Numeric(col) == IsNumericColumn(rows, col) IN SelectSeq(columns, Numeric)

\* file.name; the files of the chart catalogues are all named data.csv
FileName(file) == IF "name" \in DOMAIN file THEN file.name ELSE "data.csv"

\* a call of retryOperation as it returns: the file, the number of the last
\* attempt, the waits made in milliseconds and how it ended
Settled(name, attempt, waits, outcome) ==
    <<[name |-> name, attempt |-> attempt, waits |-> waits, outcome |-> outcome]>>

\* the state after the first upload of an accepted file into a browser with
\* an empty localStorage: the complete callback of Papa.parse (App.jsx
\* 369-424) has set data, dataColumns, the file name, the recent files and
\* the patterns, and the effect of lines 440-448 has set the bounds, auto
\* date range being on.  A recent-files entry is modelled by its name; its
\* size, lastModified and timestamp are read by no decision.
Loaded(file) ==
    LET optimalRange == calculateOptimalDateRange(file.rows, "Epoch", now)
        patterns == detectDataPatterns(file.rows,
                                       NumericColumns(file.rows, file.columns))
    IN
    /\ fileName = FileName(file)
    /\ recentFiles = <<[name |-> FileName(file)]>>
    /\ loading = FALSE
    /\ error = <<>>
    /\ retryCount = 0
    /\ dataPatterns = patterns
    /\ aiInsights = Insights(patterns)
    /\ closureRecentFiles = <<>>
    /\ savedRecentFiles = <<[name |-> FileName(file)]>>
    /\ uploads = <<>>
    /\ settled = Settled(FileName(file), 1, <<>>, "resolved")
    /\ Accepted(file)
    /\ data = file.rows
    /\ dataColumns = file.columns
    /\ selectedX = "Epoch"
    /\ selectedY = "Easting"
    /\ selectedY2 = "Northing"
    /\ chartType = "line"
    /\ showSmooth = FALSE
    /\ smoothingWindow = 5
    /\ smoothingType = "count"
    /\ smoothingHours = 24
    /\ relativeToZero = FALSE
    /\ startDate = optimalRange.start
    /\ endDate = optimalRange.end
    /\ autoDateRange = TRUE

\* the effect of App.jsx 440-448, run after a render that changed data,
\* selectedX or autoDateRange
AutoRangeEffect(rows, xColumn, auto) ==
    LET optimalRange == calculateOptimalDateRange(rows, xColumn, now) IN
    IF Len(rows) > 0 /\ auto /\ optimalRange.start # <<>> /\ optimalRange.end # <<>>
    THEN /\ startDate' = optimalRange.start
         /\ endDate' = optimalRange.end
    ELSE UNCHANGED <<startDate, endDate>>

\* the chart-type select (App.jsx 1041)
SetChartType(t) ==
    /\ Len(data) > 0
    /\ chartType' = t
    /\ UNCHANGED <<data, dataColumns, selectedX, selectedY, selectedY2, showSmooth,
                   smoothingWindow, smoothingType, smoothingHours, relativeToZero,
                   startDate, endDate, autoDateRange, now, arg, ret, uploadVars>>

\* the smoothing checkbox (App.jsx 1059)
SetShowSmooth(b) ==
    /\ Len(data) > 0
    /\ showSmooth' = b
    /\ UNCHANGED <<data, dataColumns, selectedX, selectedY, selectedY2, chartType,
                   smoothingWindow, smoothingType, smoothingHours, relativeToZero,
                   startDate, endDate, autoDateRange, now, arg, ret, uploadVars>>

\* the smoothing-type radio buttons, shown while showSmooth (App.jsx 1076, 1087)
SetSmoothingType(t) ==
    /\ Len(data) > 0
    /\ showSmooth
    /\ smoothingType' = t
    /\ UNCHANGED <<data, dataColumns, selectedX, selectedY, selectedY2, chartType,
                   showSmooth, smoothingWindow, smoothingHours, relativeToZero,
                   startDate, endDate, autoDateRange, now, arg, ret, uploadVars>>

\* the points slider, shown while showSmooth in count mode (App.jsx 1097-1105)
SetSmoothingWindow(w) ==
    /\ Len(data) > 0
    /\ showSmooth
    /\ smoothingType = "count"
    /\ smoothingWindow' = w
    /\ UNCHANGED <<data, dataColumns, selectedX, selectedY, selectedY2, chartType,
                   showSmooth, smoothingType, smoothingHours, relativeToZero,
                   startDate, endDate, autoDateRange, now, arg, ret, uploadVars>>

\* the start-from-zero checkbox (App.jsx 1135)
SetRelativeToZero(b) ==
    /\ Len(data) > 0
    /\ relativeToZero' = b
    /\ UNCHANGED <<data, dataColumns, selectedX, selectedY, selectedY2, chartType,
                   showSmooth, smoothingWindow, smoothingType, smoothingHours,
                   startDate, endDate, autoDateRange, now, arg, ret, uploadVars>>

\* the auto-date-range checkbox (App.jsx 1187) and the effect it triggers
SetAutoDateRange(b) ==
    /\ Len(data) > 0
    /\ autoDateRange' = b
    /\ AutoRangeEffect(data, selectedX, b)
    /\ UNCHANGED <<data, dataColumns, selectedX, selectedY, selectedY2, chartType,
                   showSmooth, smoothingWindow, smoothingType, smoothingHours,
                   relativeToZero, now, arg, ret, uploadVars>>

\* the date pickers, shown while auto date range is off (App.jsx 1199, 1210)
SetStartDate(d) ==
    /\ Len(data) > 0
    /\ ~autoDateRange
    /\ startDate' = <<d>>
    /\ UNCHANGED <<data, dataColumns, selectedX, selectedY, selectedY2, chartType,
                   showSmooth, smoothingWindow, smoothingType, smoothingHours,
                   relativeToZero, endDate, autoDateRange, now, arg, ret, uploadVars>>

SetEndDate(d) ==
    /\ Len(data) > 0
    /\ ~autoDateRange
    /\ endDate' = <<d>>
    /\ UNCHANGED <<data, dataColumns, selectedX, selectedY, selectedY2, chartType,
                   showSmooth, smoothingWindow, smoothingType, smoothingHours,
                   relativeToZero, startDate, autoDateRange, now, arg, ret, uploadVars>>

\* the Clear Date Filter button (App.jsx 1220-1224)
ClearDateFilter ==
    /\ Len(data) > 0
    /\ startDate' = <<>>
    /\ endDate' = <<>>
    /\ UNCHANGED <<data, dataColumns, selectedX, selectedY, selectedY2, chartType,
                   showSmooth, smoothingWindow, smoothingType, smoothingHours,
                   relativeToZero, autoDateRange, now, arg, ret, uploadVars>>

\* the wall clock advances
Tick ==
    /\ BigLT(now, BigAdd(NowBase, Big(0, MaxClock)))
    /\ now' = BigAdd(now, Big(0, 1))
    /\ UNCHANGED <<appVars, uploadVars, arg, ret>>

(***************************************************************************)
(* The upload: handleFileUpload (App.jsx 360-437) calls retryOperation     *)
(* (267-284) on uploadOperation.  A call in flight is                      *)
(* [file, attempt, pc, waits]: pc is "parsing" while Papa.parse reads the  *)
(* file and "backoff" while the timer of line 281 runs; waits lists the    *)
(* timers set so far, in milliseconds.  A file is                          *)
(* [name, columns, rows, errors], errors being results.errors.length > 0.  *)
(***************************************************************************)
\* the settings no step of an upload writes
settingVars == <<selectedX, selectedY, selectedY2, chartType, showSmooth,
                 smoothingWindow, smoothingType, smoothingHours, relativeToZero,
                 autoDateRange>>

\* retryOperation(operation, maxRetries = 3)
maxRetries == 3
\* .slice(0, 5) of line 413
RecentCap == 5

RECURSIVE Pow2(_)
Pow2(n) == IF n = 0 THEN 1 ELSE 2 * Pow2(n - 1)

\* the timer of line 281 after the failed attempt: Math.pow(2, attempt - 1) * 1000
BackoffMs(attempt) == Pow2(attempt - 1) * 1000

\* ParseFailure without the check of the numeric columns (lines 379-386)
ParseFailureUnchecked(file) ==
    IF file.errors THEN <<"CSV parsing errors">>
    ELSE IF Len(file.rows) = 0 THEN <<"No data found in the uploaded file">>
    ELSE <<>>

\* what the complete callback throws (lines 371-386): <<>> when nothing
ParseFailure(file) ==
    IF file.errors THEN <<"CSV parsing errors">>
    ELSE IF Len(file.rows) = 0 THEN <<"No data found in the uploaded file">>
    ELSE IF NumericColumns(file.rows, file.columns) = <<>>
    THEN <<"No numeric columns found in the data">>
    ELSE <<>>

\* UpdatedRecentFiles without the filter: the name may come twice
UpdatedRecentFilesUnfiltered(name) ==
    LET all == <<[name |-> name]>> \o closureRecentFiles
    IN  SubSeq(all, 1, IF Len(all) < RecentCap THEN Len(all) ELSE RecentCap)

\* [fileInfo, ...recentFiles.filter(f => f.name !== file.name)].slice(0, 5),
\* on the recentFiles of the closure
UpdatedRecentFiles(name) ==
    LET Other(f) == f.name # name
        all == <<[name |-> name]>> \o SelectSeq(closureRecentFiles, Other)
    IN  SubSeq(all, 1, IF Len(all) < RecentCap THEN Len(all) ELSE RecentCap)

RemoveAt(seq, u) == SubSeq(seq, 1, u - 1) \o SubSeq(seq, u + 1, Len(seq))

\* analyzeDataPatterns (App.jsx 287-314)
analyzeDataPatterns(rows, columns) ==
    LET patterns == detectDataPatterns(rows, columns) IN
    /\ dataPatterns' = patterns
    /\ aiInsights' = Insights(patterns)

\* handleFileUpload(file) up to the first await: the first iteration of the
\* loop of retryOperation and the start of Papa.parse.  At most limit calls
\* are in flight.
StartUpload(file, limit) ==
    /\ Len(uploads) < limit
    /\ error' = <<>>
    /\ retryCount' = 1
    /\ loading' = TRUE
    /\ uploads' = Append(uploads, [file |-> file, attempt |-> 1, pc |-> "parsing",
                                    waits |-> <<>>])
    /\ UNCHANGED <<data, dataColumns, settingVars, startDate, endDate, fileName,
                   recentFiles, dataPatterns, aiInsights, closureRecentFiles,
                   savedRecentFiles, settled, now, arg, ret>>

\* Rejected whose terminal catch does not clear the loading flag
RejectedLeavingLoading(u, message) ==
    LET call == uploads[u] IN
    IF call.attempt = maxRetries
    THEN /\ error' = <<[message |-> message, operation |-> "retry operation"]>>
         /\ UNCHANGED loading
         /\ uploads' = RemoveAt(uploads, u)
         /\ settled' = Settled(call.file.name, call.attempt, call.waits, "error")
         /\ UNCHANGED retryCount
    ELSE /\ uploads' = [uploads EXCEPT ![u].pc = "backoff",
                                       ![u].waits = Append(@, BackoffMs(call.attempt))]
         /\ UNCHANGED <<error, loading, retryCount, settled>>

\* the catch of lines 275-282 for the call u, whose attempt threw message
Rejected(u, message) ==
    LET call == uploads[u] IN
    IF call.attempt = maxRetries
    THEN /\ error' = <<[message |-> message, operation |-> "retry operation"]>>
         /\ loading' = FALSE
         /\ uploads' = RemoveAt(uploads, u)
         /\ settled' = Settled(call.file.name, call.attempt, call.waits, "error")
         /\ UNCHANGED retryCount
    ELSE /\ uploads' = [uploads EXCEPT ![u].pc = "backoff",
                                       ![u].waits = Append(@, BackoffMs(call.attempt))]
         /\ UNCHANGED <<error, loading, retryCount, settled>>

\* the complete callback of Papa.parse for the call u (lines 369-428), and
\* what follows the await: setRetryCount(0) or the catch
ParseComplete(u) ==
    /\ u \in 1..Len(uploads)
    /\ uploads[u].pc = "parsing"
    /\ LET call == uploads[u]
           file == call.file
           failure == ParseFailure(file)
       IN  IF failure = <<>>
           THEN /\ data' = file.rows
                /\ dataColumns' = file.columns
                /\ fileName' = file.name
                /\ recentFiles' = UpdatedRecentFiles(file.name)
                /\ savedRecentFiles' = UpdatedRecentFiles(file.name)
                /\ analyzeDataPatterns(file.rows, NumericColumns(file.rows, file.columns))
                /\ loading' = FALSE
                /\ retryCount' = 0
                /\ AutoRangeEffect(file.rows, selectedX, autoDateRange)
                /\ uploads' = RemoveAt(uploads, u)
                /\ settled' = Settled(file.name, call.attempt, call.waits, "resolved")
                /\ UNCHANGED <<settingVars, error, closureRecentFiles, now, arg, ret>>
           ELSE /\ Rejected(u, failure[1])
                /\ UNCHANGED <<data, dataColumns, settingVars, startDate, endDate,
                               fileName, recentFiles, dataPatterns, aiInsights,
                               closureRecentFiles, savedRecentFiles, now, arg, ret>>

\* the error callback of Papa.parse for the call u (lines 429-431): the file
\* could not be read
ReadError(u) ==
    /\ u \in 1..Len(uploads)
    /\ uploads[u].pc = "parsing"
    /\ Rejected(u, "Failed to parse CSV")
    /\ UNCHANGED <<data, dataColumns, settingVars, startDate, endDate, fileName,
                   recentFiles, dataPatterns, aiInsights, closureRecentFiles,
                   savedRecentFiles, now, arg, ret>>

\* the timer of line 281 fires for the call u: the next iteration of the loop
BackoffElapsed(u) ==
    /\ u \in 1..Len(uploads)
    /\ uploads[u].pc = "backoff"
    /\ error' = <<>>
    /\ retryCount' = uploads[u].attempt + 1
    /\ loading' = TRUE
    /\ uploads' = [uploads EXCEPT ![u].pc = "parsing", ![u].attempt = @ + 1]
    /\ UNCHANGED <<data, dataColumns, settingVars, startDate, endDate, fileName,
                   recentFiles, dataPatterns, aiInsights, closureRecentFiles,
                   savedRecentFiles, settled, now, arg, ret>>

\* a click on the i-th recent file whose data is cached in localStorage
\* (lines 918-935): file is what the upload of that name saved
LoadRecent(i, file) ==
    /\ i \in 1..Len(recentFiles)
    /\ file.name = recentFiles[i].name
    /\ ParseFailure(file) = <<>>
    /\ data' = file.rows
    /\ dataColumns' = file.columns
    /\ fileName' = file.name
    /\ analyzeDataPatterns(file.rows, NumericColumns(file.rows, file.columns))
    /\ AutoRangeEffect(file.rows, selectedX, autoDateRange)
    /\ UNCHANGED <<settingVars, recentFiles, loading, error, retryCount,
                   closureRecentFiles, savedRecentFiles, uploads, settled,
                   now, arg, ret>>

\* the Clear Recent Files button, shown under a non-empty list (lines 966-970)
ClearRecentFiles ==
    /\ Len(recentFiles) > 0
    /\ recentFiles' = <<>>
    /\ savedRecentFiles' = <<>>
    /\ UNCHANGED <<appVars, fileName, loading, error, retryCount, dataPatterns,
                   aiInsights, closureRecentFiles, uploads, settled, now, arg, ret>>

\* the x and y selects (App.jsx 990, 1002); the effect of lines 440-448
\* follows a change of selectedX
SetSelectedX(col) ==
    /\ \E c \in 1..Len(dataColumns) : dataColumns[c] = col
    /\ selectedX' = col
    /\ AutoRangeEffect(data, col, autoDateRange)
    /\ UNCHANGED <<data, dataColumns, selectedY, selectedY2, chartType, showSmooth,
                   smoothingWindow, smoothingType, smoothingHours, relativeToZero,
                   autoDateRange, now, arg, ret, uploadVars>>

SetSelectedY(col) ==
    /\ \E c \in 1..Len(dataColumns) : dataColumns[c] = col
    /\ selectedY' = col
    /\ UNCHANGED <<data, dataColumns, selectedX, selectedY2, chartType, showSmooth,
                   smoothingWindow, smoothingType, smoothingHours, relativeToZero,
                   startDate, endDate, autoDateRange, now, arg, ret, uploadVars>>

\* the second y select, shown in dual-axis mode (App.jsx 1012-1024)
SetSelectedY2(col) ==
    /\ chartType = "dual_axis"
    /\ \E c \in 1..Len(dataColumns) : dataColumns[c] = col
    /\ selectedY2' = col
    /\ UNCHANGED <<data, dataColumns, selectedX, selectedY, chartType, showSmooth,
                   smoothingWindow, smoothingType, smoothingHours, relativeToZero,
                   startDate, endDate, autoDateRange, now, arg, ret, uploadVars>>

(***************************************************************************)
(* The trace builder: a file is loaded and the chart settings change.      *)
(***************************************************************************)
Init ==
    /\ now = NowBase
    /\ arg = <<>>
    /\ ret = <<>>
    /\ \E file \in ChartFiles : Loaded(file)

Next ==
    \/ \E t \in {"line", "dual_axis"} : SetChartType(t)
    \/ \E b \in BOOLEAN : SetShowSmooth(b)
    \/ \E t \in {"count", "time"} : SetSmoothingType(t)
    \/ \E b \in BOOLEAN : SetRelativeToZero(b)

Spec == Init /\ [][Next]_vars

(***************************************************************************)
(* The range filter: a file is loaded, the date bounds change and the      *)
(* clock advances.                                                         *)
(***************************************************************************)
InitFilter ==
    /\ now = NowBase
    /\ arg = <<>>
    /\ ret = <<>>
    /\ \E file \in FilterFiles : Loaded(file)

NextFilter ==
    \/ \E b \in BOOLEAN : SetAutoDateRange(b)
    \/ \E d \in DateChoices : SetStartDate(d)
    \/ \E d \in DateChoices : SetEndDate(d)
    \/ ClearDateFilter
    \/ Tick

SpecFilter == InitFilter /\ [][NextFilter]_vars

(***************************************************************************)
(* Properties of the trace builder, checked under Spec.                    *)
(***************************************************************************)
\* the rows among rows whose cell in column col is key
RowsOfKey(rows, col, key) ==
    LET Mine(row) == Cell(row, col) = key IN SelectSeq(rows, Mine)

\* the rows a trace was built from: the rows of its group, or all of them
TraceRows(t, rows) ==
    IF t.name.group = <<>> THEN rows
    ELSE RowsOfKey(rows, groupingColumn[1], t.name.group[1])

\* y[i] is the value of the row whose timestamp is x[i]
PointOfRow(t, rows, i) ==
    LET parsed == IF i <= Len(rows) THEN ParseFloat(Cell(rows[i], t.name.column)) ELSE NaN
    IN  /\ i <= Len(rows)
        /\ t.x[i] = convertTimestamp(Cell(rows[i], selectedX), now)
        /\ ~IsNaN(parsed)
        /\ t.y[i] = Small(parsed[1])

\* C1: in every trace of chartData x and y have the same length, and y[i]
\* is the value of the row whose timestamp is x[i] (compared on the raw
\* traces while start-from-zero is off, where y holds the parsed cells), in
\* single- and dual-axis mode, grouped or not, also when a y cell of a row
\* does not parse as a number.
C1_XYAligned ==
    LET traces == chartData
        rows == filteredData
    IN  \A k \in 1..Len(traces) :
            LET t == traces[k]
                own == TraceRows(t, rows)
            IN  /\ Len(t.x) = Len(t.y)
                /\ (~t.name.smoothed /\ ~relativeToZero)
                      => \A i \in 1..Len(t.y) : PointOfRow(t, own, i)

\* C2: every trace of chartData has a non-empty y; a group, the ungrouped
\* data set, or the secondary column of a dual-axis chart with no valid
\* value contributes no trace.
C2_NonEmptyY ==
    LET traces == chartData IN
    \A k \in 1..Len(traces) : Len(traces[k].y) > 0

\* the index in rows of the first row whose cell in column col is key
FirstSeen(rows, col, key) ==
    CHOOSE i \in 1..Len(rows) :
        /\ Cell(rows[i], col) = key
        /\ \A j \in 1..(i - 1) : Cell(rows[j], col) # key

\* C3: with a grouping column, the traces of chartData come in the order in
\* which the group keys first occur in the filtered rows, whatever the keys
\* spell (integer-like keys included: "2" before "1" stays "2" before "1").
C3_FirstSeenOrder ==
    IsGrouped =>
        LET traces == chartData
            rows == filteredData
            col == groupingColumn[1]
        IN  \A k \in 1..Len(traces) : \A l \in (k + 1)..Len(traces) :
                FirstSeen(rows, col, traces[k].name.group[1])
                    <= FirstSeen(rows, col, traces[l].name.group[1])

\* the distinct values of column col in rows
GroupKeys(rows, col) == { Cell(rows[i], col) : i \in 1..Len(rows) }

C9_ZeroBaseline ==
    (relativeToZero /\ chartType # "dual_axis") =>
        LET traces == chartData
            rows == filteredData
        IN  \A k \in 1..Len(traces) :
                LET t == traces[k]
                    valid == NumericValues(TraceRows(t, rows), t.name.column)
                IN  ~t.name.smoothed =>
                        /\ Len(t.y) = Len(valid)
                        /\ \A i \in 1..Len(t.y) : t.y[i] = valid[i] - valid[1]
                        /\ (Len(t.y) > 0 => t.y[1] = 0)

\* C9 witness: the ungrouped values 10, 20, 30 are drawn as 0, 10, 20
C9_Witness ==
    /\ relativeToZero
    /\ chartType = "line"
    /\ ~IsGrouped
    /\ NumericValues(filteredData, selectedY) = <<10, 20, 30>>
    /\ Len(chartData) = 1
    /\ chartData[1].y = <<0, 10, 20>>

(***************************************************************************)
(* Properties of the range filter, checked under SpecFilter.               *)
(***************************************************************************)
\* instant a is at or after instant b
AtOrAfter(a, b) == a.hi > b.hi \/ (a.hi = b.hi /\ a.lo >= b.lo)

RowInstant(i) == convertTimestamp(Cell(data[i], selectedX), now)

\* the indices of the rows inside the bounds, both bounds inclusive
InRange ==
    { i \in 1..Len(data) :
        /\ (startDate = <<>> \/ AtOrAfter(RowInstant(i), startDate[1]))
        /\ (endDate = <<>> \/ AtOrAfter(endDate[1], RowInstant(i))) }

\* the j-th smallest index of InRange
NthInRange(j) == CHOOSE i \in InRange : Cardinality({ m \in InRange : m < i }) = j - 1

TimestampInputs ==
    { Undefined, <<>>, IsoDay(1), IsoDay(2), IsoDay(3),
      <<"a", "b", "c">>,
      <<"2", "0", "2", "4">>,
      <<"2", "0", "2", "4", "-", "1", "3", "-", "0", "1">>,
      <<"1", "0", "0", "0", "0", "0", "0", "0", "0">>,
      <<"9", "9", "9", "9", "9", "9", "9", "9", "8">>,
      <<"9", "9", "9", "9", "9", "9", "9", "9", "9">>,
      <<"1", "0", "0", "0", "0", "0", "0", "0", "0", "0">>,
      <<"1", "0", "0", "0", "0", "0", "0", "0", "0", "1">>,
      <<"1", "3", "8", "8", "5", "3", "4", "4", "1", "8">>,
      <<"9", "9", "9", "9", "9", "9", "9", "9", "9", "8">>,
      <<"9", "9", "9", "9", "9", "9", "9", "9", "9", "9">>,
      <<"1", "0", "0", "0", "0", "0", "0", "0", "0", "0", "0">>,
      <<"1", "0", "0", "0", "0", "0", "0", "0", "0", "0", "1">>,
      <<"9", "9", "9", "9", "9", "9", "9", "9", "9", "9", "9">>,
      <<"1", "7", "0", "4", "0", "6", "7", "2", "0", "0", "0", "0", "0">> }

\* one call convertTimestamp(arg), made at the clock reading now
CallConvertTimestamp ==
    /\ ret' = <<[out |-> convertTimestamp(arg, now), at |-> now]>>
    /\ UNCHANGED <<appVars, uploadVars, now, arg>>

InitTimestamp ==
    /\ AppInit
    /\ now = NowBase
    /\ arg \in TimestampInputs
    /\ ret = <<>>

NextTimestamp == CallConvertTimestamp \/ Tick

SpecTimestamp == InitTimestamp /\ [][NextTimestamp]_vars

\* a digit string of nine digits or more without a leading zero
IsLongNumeral(cell) ==
    /\ Len(cell) >= 9
    /\ \A i \in 1..Len(cell) : IsDigit(cell[i])
    /\ Head(cell) # "0"

\* the value of the numeral cell followed by three zeros: cell * 1000
TimesThousand(cell) == DigitsValue(cell \o <<"0", "0", "0">>, Big(0, 0))

\* 1980-01-06T00:00:00Z in milliseconds since 1970: 315964800000
GpsEpochMillis == [hi |-> 315964, lo |-> 800000]

\* the instant of a numeral by its number of digits: nine digits are below
\* 1000000000, ten digits are below 10000000000
InstantByMagnitude(cell) ==
    IF Len(cell) = 9
    THEN [hi |-> GpsEpochMillis.hi + TimesThousand(cell).hi
                   + ((GpsEpochMillis.lo + TimesThousand(cell).lo) \div Base),
          lo |-> (GpsEpochMillis.lo + TimesThousand(cell).lo) % Base]
    ELSE IF Len(cell) = 10 THEN TimesThousand(cell)
    ELSE DigitsValue(cell, Big(0, 0))

\* C6: convertTimestamp reads a numeric cell below 1000000000 as GPS seconds
\* since 1980-01-06T00:00:00Z, one from 1000000000 and below 10000000000 as
\* Unix seconds, a larger one as Unix milliseconds: 999999999 takes the GPS
\* path, 1000000000 and 9999999999 the seconds path, 10000000000 the
\* milliseconds path; an empty or absent cell gives the clock reading.
C6_TimestampClasses ==
    ret # <<>> =>
        LET out == ret[1].out IN
        /\ IsLongNumeral(arg) => out = InstantByMagnitude(arg)
        /\ arg = <<"9", "9", "9", "9", "9", "9", "9", "9", "9">>
              => out = [hi |-> 1315964, lo |-> 799000]
        /\ arg = <<"1", "0", "0", "0", "0", "0", "0", "0", "0", "0">>
              => out = [hi |-> 1000000, lo |-> 0]
        /\ arg = <<"9", "9", "9", "9", "9", "9", "9", "9", "9", "9">>
              => out = [hi |-> 9999999, lo |-> 999000]
        /\ arg = <<"1", "0", "0", "0", "0", "0", "0", "0", "0", "0", "0">>
              => out = [hi |-> 10000, lo |-> 0]
        /\ (arg = Undefined \/ arg = <<>>) => out = ret[1].at

\* C6 witness: 1000000000 was converted on the Unix-seconds path
C6_Witness ==
    /\ arg = <<"1", "0", "0", "0", "0", "0", "0", "0", "0", "0">>
    /\ ret # <<>>
    /\ ret[1].out = [hi |-> 1000000, lo |-> 0]

(***************************************************************************)
(* movingAverage on its own.                                               *)
(***************************************************************************)
SeqsFromZero(S, n) == UNION { [1..k -> S] : k \in 0..n }

SmoothInputs ==
    [values : SeqsFromZero(0..MaxSmoothValue, MaxSmoothLen), windowSize : 3..MaxWindow]

\* one call movingAverage(arg.values, arg.windowSize)
CallMovingAverage ==
    /\ ret = <<>>
    /\ ret' = <<movingAverage(arg.values, arg.windowSize)>>
    /\ UNCHANGED <<appVars, uploadVars, now, arg>>

InitSmooth ==
    /\ AppInit
    /\ now = NowBase
    /\ arg \in SmoothInputs
    /\ ret = <<>>

NextSmooth == CallMovingAverage

SpecSmooth == InitSmooth /\ [][NextSmooth]_vars

StrictlyIncreasing(values) ==
    \A i \in 1..(Len(values) - 1) : values[i] < values[i + 1]

\* the sum of values[lo..hi]
RECURSIVE SumBetween(_, _, _)
SumBetween(values, lo, hi) ==
    IF hi < lo THEN 0 ELSE values[hi] + SumBetween(values, lo, hi - 1)

\* the first index (1-based) of the window that ends at index i
FirstOfWindow(i, w) == IF i - w >= 0 THEN i - w + 1 ELSE 1

\* C7: movingAverage returns as many values as it is given, the i-th the
\* mean of the inputs from index max(0, i-W+1) to i (0-based); for a window
\* W >= 3 and a strictly increasing input the output is increasing and
\* every element lies between the least and the greatest input.
C7_MovingAverage ==
    ret # <<>> =>
        LET values == arg.values
            w == arg.windowSize
            out == ret[1]
        IN  /\ Len(out) = Len(values)
            /\ \A i \in 1..Len(out) :
                   /\ out[i].den > 0
                   /\ out[i].num * (i - FirstOfWindow(i, w) + 1)
                        = out[i].den * SumBetween(values, FirstOfWindow(i, w), i)
            /\ (w >= 3 /\ StrictlyIncreasing(values)) =>
                   /\ \A i \in 1..(Len(out) - 1) :
                          out[i].num * out[i + 1].den < out[i + 1].num * out[i].den
                   /\ \A i \in 1..Len(out) :
                          /\ values[1] * out[i].den <= out[i].num
                          /\ out[i].num <= values[Len(values)] * out[i].den

\* C7 witness: 0, 1, 2, 3 smoothed with a window of 3 is 0, 1/2, 1, 2
C7_Witness ==
    /\ arg.values = <<0, 1, 2, 3>>
    /\ arg.windowSize = 3
    /\ ret = << <<[num |-> 0, den |-> 1], [num |-> 1, den |-> 2],
                  [num |-> 1, den |-> 1], [num |-> 2, den |-> 1]>> >>

(***************************************************************************)
(* makeRelativeToZero on its own: it is applied to a sequence, then to its *)
(* own result, then to the sequence moved by a constant.                   *)
(***************************************************************************)
BaselineValues ==
    { JNum(n) : n \in (-1)..MaxBaseValue }
    \cup { JStr(<<>>), JStr(<<"a", "b", "c">>), JStr(<<"7">>) }

BaselineInputs == [values : SeqsFromZero(BaselineValues, MaxBaseLen), c : {-2, 3}]

AllNumbers(values) == \A i \in 1..Len(values) : IsJNum(values[i])

\* s + c, element by element, of a sequence of numbers
Translate(values, c) == [i \in 1..Len(values) |-> JNum(values[i].num + c)]

CallMakeRelativeToZero ==
    /\ ret = <<>>
    /\ ret' = <<makeRelativeToZero(arg.values)>>
    /\ UNCHANGED <<appVars, uploadVars, now, arg>>

CallAgain ==
    /\ Len(ret) = 1
    /\ ret' = Append(ret, makeRelativeToZero(ret[1]))
    /\ UNCHANGED <<appVars, uploadVars, now, arg>>

CallTranslated ==
    /\ Len(ret) = 2
    /\ AllNumbers(arg.values)
    /\ ret' = Append(ret, makeRelativeToZero(Translate(arg.values, arg.c)))
    /\ UNCHANGED <<appVars, uploadVars, now, arg>>

InitBaseline ==
    /\ AppInit
    /\ now = NowBase
    /\ arg \in BaselineInputs
    /\ ret = <<>>

NextBaseline == CallMakeRelativeToZero \/ CallAgain \/ CallTranslated

SpecBaseline == InitBaseline /\ [][NextBaseline]_vars

\* C8: makeRelativeToZero returns as many elements as it is given, the
\* first of them 0 when the first input is a number (or coerces to one); a
\* second application changes nothing, and a sequence of numbers moved by
\* a constant has the same result; a sequence in which nothing coerces to
\* a number is returned as it is.
C8_Baseline ==
    LET values == arg.values IN
    /\ Len(ret) >= 1 =>
          /\ Len(ret[1]) = Len(values)
          /\ (values # <<>> /\ ~IsNaN(Number(values[1]))) => ret[1][1] = JNum(0)
          /\ (\A i \in 1..Len(values) : IsNaN(Number(values[i]))) => ret[1] = values
    /\ Len(ret) >= 2 => ret[2] = ret[1]
    /\ Len(ret) >= 3 => ret[3] = ret[1]

\* C8 witness: 1, -1, 0 gives 0, -2, -1, again on a second application and
\* again for the sequence moved by the constant
C8_Witness ==
    /\ arg.values = <<JNum(1), JNum(-1), JNum(0)>>
    /\ Len(ret) = 3
    /\ ret[1] = <<JNum(0), JNum(-2), JNum(-1)>>
    /\ ret[3] = ret[1]

(***************************************************************************)
(* calculateStatistics on its own.                                         *)
(***************************************************************************)
StatInputs == SeqsFromZero(1..MaxStatValue, MaxStatLen)

\* one call calculateStatistics(arg)
CallCalculateStatistics ==
    /\ ret = <<>>
    /\ ret' = <<calculateStatistics(arg)>>
    /\ UNCHANGED <<appVars, uploadVars, now, arg>>

InitStats ==
    /\ AppInit
    /\ now = NowBase
    /\ arg \in StatInputs
    /\ ret = <<>>

NextStats == CallCalculateStatistics

SpecStats == InitStats /\ [][NextStats]_vars

\* the number of values of the sequence that are below v, and at most v
CountBelow(values, v) == Cardinality({ i \in 1..Len(values) : values[i] < v })
CountUpTo(values, v) == Cardinality({ i \in 1..Len(values) : values[i] <= v })

\* v is the element at 0-based index k of the ascending-sorted sequence
IsSortedAt(values, k, v) == CountBelow(values, v) <= k /\ k < CountUpTo(values, v)

\* N * sum(x^2) - sum(x)^2: N^2 times the population variance
ScaledVariance(values) ==
    Len(values) * SumBetween([i \in 1..Len(values) |-> values[i] * values[i]],
                             1, Len(values))
        - SumBetween(values, 1, Len(values)) * SumBetween(values, 1, Len(values))

\* a^2 compared with d * b^2, as -1, 0 or 1, for 0 <= a < 50 * b and
\* b <= 20000, without a product above 2^31
CompareSquare(a, b, d) ==
    LET q == a \div b
        s == a % b
        u == (2 * q * s) \div b
        v == (2 * q * s) % b
        low == b * v + s * s
        high == q * q + u + (low \div (b * b))
    IN  IF high < d THEN -1
        ELSE IF high > d THEN 1
        ELSE IF low % (b * b) = 0 THEN 0 ELSE 1

\* r ten-thousandths is the population standard deviation rounded to four
\* decimals: (r - 1/2)^2 <= 10^8 * variance < (r + 1/2)^2
IsRoundedStdDev(values, r) ==
    LET n == Len(values)
        dev == ScaledVariance(values)
    IN  /\ r >= 0
        /\ (r > 0 => CompareSquare((2 * r - 1) * n, 2 * Scale4, dev) <= 0)
        /\ CompareSquare((2 * r + 1) * n, 2 * Scale4, dev) > 0

\* C10 (as stated): for a sequence of N >= 1 values calculateStatistics
\* returns count N, the arithmetic mean, the population standard deviation,
\* the minimum, the maximum and as median the element at index floor(N/2)
\* of the sorted copy; for the empty sequence all zeros.
C10_ExactStatistics ==
    ret # <<>> =>
        LET st == ret[1]
            n == Len(arg)
        IN  IF n = 0
            THEN st = [mean |-> 0, stdDev |-> 0, min |-> 0, max |-> 0,
                       median |-> 0, count |-> 0]
            ELSE /\ st.count = n
                 /\ st.mean * n = SumBetween(arg, 1, n) * Scale4
                 /\ CompareSquare(st.stdDev * n, Scale4, ScaledVariance(arg)) = 0
                 /\ \E i \in 1..n : st.min = arg[i] * Scale4
                 /\ \A i \in 1..n : st.min <= arg[i] * Scale4
                 /\ \E i \in 1..n : st.max = arg[i] * Scale4
                 /\ \A i \in 1..n : st.max >= arg[i] * Scale4
                 /\ \E i \in 1..n : /\ st.median = arg[i] * Scale4
                                    /\ IsSortedAt(arg, n \div 2, arg[i])

\* C10 (amended): for a sequence of N >= 1 values calculateStatistics
\* returns count N and, each rounded to four decimals, the arithmetic mean,
\* the population standard deviation, the minimum, the maximum and as
\* median the element at index floor(N/2) of the sorted copy (3 for
\* 1, 2, 3, 4); for the empty sequence all zeros.
C10_RoundedStatistics ==
    ret # <<>> =>
        LET st == ret[1]
            n == Len(arg)
        IN  IF n = 0
            THEN st = [mean |-> 0, stdDev |-> 0, min |-> 0, max |-> 0,
                       median |-> 0, count |-> 0]
            ELSE /\ st.count = n
                 /\ 2 * Abs(st.mean * n - SumBetween(arg, 1, n) * Scale4) <= n
                 /\ IsRoundedStdDev(arg, st.stdDev)
                 /\ \E i \in 1..n : st.min = arg[i] * Scale4
                 /\ \A i \in 1..n : st.min <= arg[i] * Scale4
                 /\ \E i \in 1..n : st.max = arg[i] * Scale4
                 /\ \A i \in 1..n : st.max >= arg[i] * Scale4
                 /\ \E i \in 1..n : /\ st.median = arg[i] * Scale4
                                    /\ IsSortedAt(arg, n \div 2, arg[i])
                 /\ arg = <<1, 2, 3, 4>> => st.median = 3 * Scale4

\* C10 witness: 1, 1, 2 has the mean 4/3, returned as 1.3333, and the
\* standard deviation sqrt(2)/3, returned as 0.4714
C10_Witness ==
    /\ arg = <<1, 1, 2>>
    /\ ret # <<>>
    /\ ret[1].mean = 13333
    /\ ret[1].stdDev = 4714
    /\ ret[1].median = 10000

(***************************************************************************)
(* detectOutliers on its own.                                              *)
(***************************************************************************)
OutlierValues == {-100, 1, 2, 5, 100}

\* the sequences over OutlierValues, and the sequence 1, 2, 3, 4, 5, 100
OutlierInputs ==
    SeqsFromZero(OutlierValues, MaxOutlierLen) \cup { <<1, 2, 3, 4, 5, 100>> }

\* one call detectOutliers(arg)
CallDetectOutliers ==
    /\ ret = <<>>
    /\ ret' = <<detectOutliers(arg)>>
    /\ UNCHANGED <<appVars, uploadVars, now, arg>>

InitOutliers ==
    /\ AppInit
    /\ now = NowBase
    /\ arg \in OutlierInputs
    /\ ret = <<>>

NextOutliers == CallDetectOutliers

SpecOutliers == InitOutliers /\ [][NextOutliers]_vars

\* the element at 0-based index k of the ascending-sorted sequence
SortedAt(values, k) ==
    LET hit == CHOOSE i \in 1..Len(values) : IsSortedAt(values, k, values[i])
    IN  values[hit]

\* the 0-based indices of the values strictly outside the fences
OutsideFences(values) ==
    LET n == Len(values)
        q1 == SortedAt(values, n \div 4)
        q3 == SortedAt(values, (3 * n) \div 4)
    IN  { i \in 0..(n - 1) :
            \/ 2 * values[i + 1] < 2 * q1 - 3 * (q3 - q1)
            \/ 2 * values[i + 1] > 2 * q3 + 3 * (q3 - q1) }

\* C11: for N >= 4 values detectOutliers reports exactly the values strictly
\* below Q1 - 1.5 IQR or strictly above Q3 + 1.5 IQR, with
\* Q1 = sorted[floor(0.25 N)] and Q3 = sorted[floor(0.75 N)], each with its
\* original index and in index order; for N < 4 it reports nothing; of
\* 1, 2, 3, 4, 5, 100 only 100 (index 5) is reported.
C11_Outliers ==
    ret # <<>> =>
        LET out == ret[1]
            n == Len(arg)
        IN  /\ n < 4 => out = <<>>
            /\ n >= 4 =>
                  /\ { out[k].index : k \in 1..Len(out) } = OutsideFences(arg)
                  /\ \A k \in 1..Len(out) : out[k].value = arg[out[k].index + 1]
                  /\ \A k \in 1..(Len(out) - 1) : out[k].index < out[k + 1].index
            /\ arg = <<1, 2, 3, 4, 5, 100>>
                  => out = <<[index |-> 5, value |-> 100, isOutlier |-> TRUE]>>

\* C11 witness: of 1, 2, 3, 4, 5, 100 the value 100 at index 5 was reported
C11_Witness ==
    /\ arg = <<1, 2, 3, 4, 5, 100>>
    /\ ret = << <<[index |-> 5, value |-> 100, isOutlier |-> TRUE]>> >>

(***************************************************************************)
(* The choice of the grouping column: files whose headers have no, one or  *)
(* two columns with a grouping name, loaded while the chart settings       *)
(* change.  Width has 'id' in its name.                                    *)
(***************************************************************************)
GroupingHeaders ==
    { <<"Epoch", "Easting">>,
      <<"Epoch", "Easting", "PointName">>,
      <<"Epoch", "Easting", "Width", "PointName">>,
      <<"Epoch", "Easting", "PointName", "Width">> }

GroupingCells ==
    [Epoch : {IsoDay(1)}, Easting : {<<"1", "0">>},
     Width : {<<>>, <<"3">>, <<"4">>}, PointName : {<<>>, <<"A">>, <<"B">>}]

\* the fields of a row that the header names
RowOfHeader(row, columns) ==
    [c \in { columns[i] : i \in 1..Len(columns) } |-> row[c]]

GroupingFiles ==
    { [columns |-> h, rows |-> [i \in 1..Len(rs) |-> RowOfHeader(rs[i], h)]] :
          h \in GroupingHeaders, rs \in SeqsUpTo(GroupingCells, MaxGroupRows) }

InitGrouping ==
    /\ now = NowBase
    /\ arg = <<>>
    /\ ret = <<>>
    /\ \E file \in GroupingFiles : Loaded(file)

SpecGrouping == InitGrouping /\ [][Next]_vars

\* the column names of the model that contain 'point', 'name', 'id' or
\* 'station' when lower-cased
KeyNames == {"PointName", "Width"}

\* the first column, in column order, with such a name
ExpectedKeyColumn ==
    LET hits == { i \in 1..Len(dataColumns) : dataColumns[i] \in KeyNames } IN
    IF hits = {} THEN <<>>
    ELSE <<dataColumns[CHOOSE i \in hits : \A j \in hits : i <= j]>>

\* C16: the rows are grouped by the first column, in column order, whose
\* name contains 'point', 'name', 'id' or 'station'; if there is none, or
\* that column is empty in every filtered row, the ungrouped branch is
\* taken; single-axis and dual-axis mode choose the same column.
C16_GroupingColumn ==
    LET traces == chartData
        rows == filteredData
        key == ExpectedKeyColumn
        grouped == /\ key # <<>>
                   /\ \E i \in 1..Len(rows) : Cell(rows[i], key[1]) \notin {<<>>, Undefined}
        perGroup == IF chartType = "dual_axis" THEN 2 ELSE 1
    IN  (Len(rows) > 0 /\ ~showSmooth) =>
            IF grouped
            THEN /\ \A k \in 1..Len(traces) : traces[k].name.group # <<>>
                 /\ { traces[k].name.group[1] : k \in 1..Len(traces) }
                        = GroupKeys(rows, key[1])
                 /\ Len(traces) = perGroup * Cardinality(GroupKeys(rows, key[1]))
                 /\ \A k \in 1..Len(traces) :
                        Len(traces[k].x)
                            = Len(RowsOfKey(rows, key[1], traces[k].name.group[1]))
            ELSE /\ \A k \in 1..Len(traces) : traces[k].name.group = <<>>
                 /\ Len(traces) = perGroup

\* C16 witness: Width comes before PointName in the header, and the rows
\* with the widths 3 and 4 of the one point A are drawn as two groups in
\* dual-axis mode
C16_Witness ==
    /\ dataColumns = <<"Epoch", "Easting", "Width", "PointName">>
    /\ Len(data) = 2
    /\ data[1].Width = <<"3">> /\ data[2].Width = <<"4">>
    /\ data[1].PointName = <<"A">> /\ data[2].PointName = <<"A">>
    /\ chartType = "dual_axis"
    /\ Len(chartData) = 4
    /\ chartData[1].name.group = << <<"3">> >>
    /\ chartData[3].name.group = << <<"4">> >>


(***************************************************************************)
(* calculateOptimalDateRange as a function: the x cells of the rows are    *)
(* days, a millisecond numeral, cells that read as the clock, and a        *)
(* numeral beyond the range of Date.                                       *)
(***************************************************************************)
BeyondNumeral == [i \in 1..17 |-> "9"]
\* 2024-01-01T00:00:00.007Z in epoch milliseconds
OddMillis == <<"1", "7", "0", "4", "0", "6", "7", "2", "0", "0", "0", "0", "7">>

RangeCells == { IsoDay(1), IsoDay(3), OddMillis, <<>>, <<"x">>, BeyondNumeral }

RangeInputs ==
    { [i \in 1..Len(cs) |-> [Epoch |-> cs[i]]] : cs \in SeqsFromZero(RangeCells, MaxRangeLen) }

\* one call calculateOptimalDateRange(arg, 'Epoch', convertTimestamp)
CallCalculateOptimalDateRange ==
    /\ ret = <<>>
    /\ ret' = <<calculateOptimalDateRange(arg, "Epoch", now)>>
    /\ UNCHANGED <<appVars, uploadVars, now, arg>>

InitRange ==
    /\ AppInit
    /\ now = NowBase
    /\ arg \in RangeInputs
    /\ ret = <<>>

NextRange == CallCalculateOptimalDateRange

SpecRange == InitRange /\ [][NextRange]_vars

\* the valid instants of the x column
ValidInstants(rows) ==
    { d \in { convertTimestamp(rows[i].Epoch, now) : i \in 1..Len(rows) } : IsValidDate(d) }

\* t is x / 20 cut to whole milliseconds
IsTwentieth(t, x) ==
    /\ BigLE(BigTimes(t, 20), x)
    /\ BigLT(x, BigTimes(BigAdd(t, Big(0, 1)), 20))

\* C17: calculateOptimalDateRange returns start = min - 5% of (max - min)
\* and end = max + 5% of (max - min), in whole milliseconds, over the valid
\* instants of the x column, and start = end = null when the data is empty
\* or no row yields a valid instant.
C17_OptimalRange ==
    ret # <<>> =>
        LET valid == ValidInstants(arg)
            range == ret[1]
        IN  IF valid = {}
            THEN range.start = <<>> /\ range.end = <<>>
            ELSE \E min \in valid : \E max \in valid :
                    /\ \A d \in valid : BigLE(min, d) /\ BigLE(d, max)
                    /\ range.start # <<>> /\ range.end # <<>>
                    /\ IsTwentieth(range.start[1],
                                   BigSub(BigTimes(min, 20), BigSub(max, min)))
                    /\ IsTwentieth(range.end[1],
                                   BigAdd(BigTimes(max, 20), BigSub(max, min)))

\* C17 witness: three rows out of order, one of them with no valid instant:
\* the bounds are 2024-01-01 less 8640000 ms and 2024-01-03 plus 8640000 ms
C17_Witness ==
    /\ arg = <<[Epoch |-> IsoDay(3)], [Epoch |-> BeyondNumeral], [Epoch |-> IsoDay(1)]>>
    /\ ret = <<[start |-> <<BigSub(DayInstant(DaysFromCivil(2024, 1, 1)), Big(8, 640000))>>,
                end |-> <<BigAdd(DayInstant(DaysFromCivil(2024, 1, 3)), Big(8, 640000))>>]>>


(***************************************************************************)
(* timeBasedMovingAverage on its own: data points on three days with small *)
(* values, in every order, and a window of one or two days.                *)
(***************************************************************************)
TimePoints ==
    [timestamp : { DayInstant(DaysFromCivil(2024, 1, d)) : d \in 1..3 },
     value : { <<v>> : v \in 0..MaxTimeValue }]

TimeInputs == [dataPoints : SeqsFromZero(TimePoints, MaxTimeLen), hoursWindow : {24, 48}]

\* one call timeBasedMovingAverage(arg.dataPoints, arg.hoursWindow)
CallTimeBasedMovingAverage ==
    /\ ret = <<>>
    /\ ret' = <<timeBasedMovingAverage(arg.dataPoints, arg.hoursWindow)>>
    /\ UNCHANGED <<appVars, uploadVars, now, arg>>

InitTimeSmooth ==
    /\ AppInit
    /\ now = NowBase
    /\ arg \in TimeInputs
    /\ ret = <<>>

NextTimeSmooth == CallTimeBasedMovingAverage

SpecTimeSmooth == InitTimeSmooth /\ [][NextTimeSmooth]_vars

\* the indices j <= i whose instant lies in [instant_i - hours, instant_i]
CausalIndices(points, i, hours) ==
    LET Within(j) ==
            /\ j <= i
            /\ BigLE(BigSub(points[i].timestamp, HoursMs(hours)), points[j].timestamp)
            /\ BigLE(points[j].timestamp, points[i].timestamp)
    IN  SelectSeq([j \in 1..Len(points) |-> j], Within)

\* C18: for points in any row order and every i, output[i] is the mean of
\* exactly the values at the indices j <= i whose instant lies within
\* [instant_i - hours * 3600000, instant_i]: no point of a later instant and
\* no later index contributes, and index i always does.
C18_CausalWindow ==
    ret # <<>> =>
        \A i \in 1..Len(arg.dataPoints) :
            LET js == CausalIndices(arg.dataPoints, i, arg.hoursWindow)
                vals == [k \in 1..Len(js) |-> arg.dataPoints[js[k]].value[1]]
            IN  ret[1][i] = Rat(SumSeq(vals), Len(vals))


(***************************************************************************)
(* The smoothed overlays of single-axis mode: files of up to               *)
(* MaxOverlayRows rows, with and without a key column, and the points      *)
(* slider moved between 3 and MaxOverlayWindow.                            *)
(***************************************************************************)
OverlayRows ==
    { Row(IsoDay(1), <<"1", "0">>, <<"5">>, <<"A">>),
      Row(IsoDay(2), <<"2", "0">>, <<"7">>, <<"A">>),
      Row(IsoDay(3), <<"x">>, <<"5">>, <<"A">>) }

OverlayFiles ==
    { [columns |-> <<"Epoch", "Easting", "Northing", "PointName">>, rows |-> rs] :
          rs \in SeqsUpTo(OverlayRows, MaxOverlayRows) }
    \cup
    { [columns |-> <<"Epoch", "Easting", "Northing">>, rows |-> rs] :
          rs \in SeqsUpTo({ Keyless(r) : r \in OverlayRows }, MaxOverlayRows) }

InitOverlay ==
    /\ now = NowBase
    /\ arg = <<>>
    /\ ret = <<>>
    /\ \E file \in OverlayFiles : Loaded(file)

NextOverlay ==
    \/ Next
    \/ \E w \in 3..MaxOverlayWindow : SetSmoothingWindow(w)

SpecOverlay == InitOverlay /\ [][NextOverlay]_vars

\* the smoothing of the selected mode, of the values ys drawn at the instants xs
SelectedSmoothing(xs, ys) ==
    IF smoothingType = "time"
    THEN timeBasedMovingAverage(
             [i \in 1..Len(xs) |->
                 [timestamp |-> xs[i],
                  value |-> IF i <= Len(ys) THEN <<ys[i]>> ELSE <<>>]],
             smoothingHours)
    ELSE movingAverage(ys, smoothingWindow)

\* the smoothing of the other mode
OtherSmoothing(xs, ys) ==
    IF smoothingType = "time"
    THEN movingAverage(ys, smoothingWindow)
    ELSE timeBasedMovingAverage(
             [i \in 1..Len(xs) |->
                 [timestamp |-> xs[i],
                  value |-> IF i <= Len(ys) THEN <<ys[i]>> ELSE <<>>]],
             smoothingHours)

\* trace k + 1 is the smoothed overlay of the raw trace k
HasOverlay(traces, k) ==
    /\ k < Len(traces)
    /\ traces[k + 1].name.smoothed
    /\ traces[k + 1].name.group = traces[k].name.group

\* C19: in single-axis mode, ungrouped and grouped alike, a raw trace is
\* followed by a smoothed overlay iff smoothing is enabled and the number of
\* its valid y values exceeds the gate of the selected mode (the window in
\* point-count mode, 2 in time-based mode), and the overlay is the smoothing
\* of the selected mode (of the values before or after the zero baseline).
C19_OverlayGate ==
    LET traces == chartData
        rows == filteredData
    IN  chartType # "dual_axis" =>
            \A k \in 1..Len(traces) :
                ~traces[k].name.smoothed =>
                    LET raw == traces[k]
                        values == NumericValues(TraceRows(raw, rows), selectedY)
                    IN  /\ HasOverlay(traces, k)
                            <=> (showSmooth /\ Len(raw.y) > SmoothGate)
                        /\ HasOverlay(traces, k) =>
                               traces[k + 1].y \in { SelectedSmoothing(raw.x, raw.y),
                                                     SelectedSmoothing(raw.x, values) }

\* C20: with zero baseline and smoothing both on, the overlay of a raw
\* trace, ungrouped or grouped, is the smoothing (point-count or time-based)
\* of the zero-baselined y sequence the raw trace carries, so that its
\* first point is 0 like the raw trace's.
C20_OverlayOfBaseline ==
    LET traces == chartData IN
    (chartType # "dual_axis" /\ relativeToZero /\ showSmooth) =>
        \A k \in 1..Len(traces) :
            (~traces[k].name.smoothed /\ HasOverlay(traces, k)) =>
                /\ traces[k + 1].y \in { SelectedSmoothing(traces[k].x, traces[k].y),
                                         OtherSmoothing(traces[k].x, traces[k].y) }
                /\ traces[k].y[1] = 0
                /\ traces[k + 1].y[1] = Rat(0, 1)


(***************************************************************************)
(* Uploads and their retries: files that parse and files that cannot, read *)
(* errors on any attempt, into a browser with an empty localStorage.       *)
(***************************************************************************)
UploadColumns == <<"Epoch", "Easting", "Northing">>

GoodFile ==
    [name |-> "good.csv", columns |-> UploadColumns, errors |-> FALSE,
     rows |-> <<[Epoch |-> IsoDay(1), Easting |-> <<"1", "0">>, Northing |-> <<"5">>],
                [Epoch |-> IsoDay(3), Easting |-> <<"2", "0">>, Northing |-> <<"7">>]>>]

\* Papa.parse reports an error (a row with too few fields) beside the rows
ErrorsFile ==
    [name |-> "errors.csv", columns |-> UploadColumns, errors |-> TRUE,
     rows |-> <<[Epoch |-> IsoDay(1), Easting |-> <<"1", "0">>, Northing |-> <<"5">>]>>]

\* a header and no row
EmptyFile ==
    [name |-> "empty.csv", columns |-> UploadColumns, errors |-> FALSE, rows |-> <<>>]

\* no cell of any column is a number
TextFile ==
    [name |-> "text.csv", columns |-> UploadColumns, errors |-> FALSE,
     rows |-> <<[Epoch |-> IsoDay(2), Easting |-> <<"a", "b", "c">>, Northing |-> <<"x">>]>>]

UploadFiles == {GoodFile, ErrorsFile, EmptyFile, TextFile}

InitUpload ==
    /\ AppInit
    /\ now = NowBase
    /\ arg = <<>>
    /\ ret = <<>>

NextUpload ==
    \/ \E file \in UploadFiles : StartUpload(file, MaxUploads)
    \/ \E u \in 1..MaxUploads : ParseComplete(u)
    \/ \E u \in 1..MaxUploads : ReadError(u)
    \/ \E u \in 1..MaxUploads : BackoffElapsed(u)

SpecUpload == InitUpload /\ [][NextUpload]_vars

\* C12: an upload is attempted at most 3 times and stops at its first
\* successful attempt; it waits 1 s, 2 s and 4 s after its failed attempts,
\* and the terminal error is surfaced only after the third failed attempt.
C12_RetryBackoff ==
    /\ \A u \in 1..Len(uploads) : uploads[u].attempt <= 3
    /\ settled # <<>> =>
           LET call == settled[1] IN
           IF call.outcome = "error"
           THEN /\ call.attempt = 3
                /\ call.waits = <<1000, 2000, 4000>>
           ELSE /\ call.attempt <= 3
                /\ call.waits = SubSeq(<<1000, 2000, 4000>>, 1, call.attempt - 1)

\* an upload that is structurally impossible: parse errors, no row, or no
\* column with a numeric cell
Impossible(file) ==
    \/ file.errors
    \/ file.rows = <<>>
    \/ \A c \in 1..Len(file.columns) : \A i \in 1..Len(file.rows) :
           \/ IsNaN(ParseFloat(Cell(file.rows[i], file.columns[c])))
           \/ IsNaN(Number(JStr(Cell(file.rows[i], file.columns[c]))))

\* the step is a step of the call u in flight
StepOfCall(u) ==
    \/ uploads' = RemoveAt(uploads, u)
    \/ Len(uploads') = Len(uploads) /\ uploads'[u] # uploads[u]

\* C14: no step of an upload that is structurally impossible changes the
\* loaded rows, the column list, the file name, the recent files, the
\* patterns or the insights, and the step that ends it sets the error state.
C14_NoPartialResult ==
    [][\A u \in 1..Len(uploads) :
          (Impossible(uploads[u].file) /\ StepOfCall(u)) =>
              /\ UNCHANGED <<data, dataColumns, fileName, recentFiles,
                             dataPatterns, aiInsights>>
              /\ uploads' = RemoveAt(uploads, u) =>
                     /\ error' # <<>>
                     /\ ~loading'
                     /\ settled' = Settled(uploads[u].file.name, 3,
                                           uploads[u].waits, "error")]_vars

\* C14 witness: good.csv is loaded, and the upload of text.csv has ended in
\* the error state after its third attempt, with the rows, the file name and
\* the recent files of good.csv in place
C14_Witness ==
    /\ settled = Settled("text.csv", 3, <<1000, 2000>>, "error")
    /\ error = <<[message |-> "No numeric columns found in the data",
                  operation |-> "retry operation"]>>
    /\ ~loading
    /\ data = GoodFile.rows
    /\ fileName = "good.csv"
    /\ recentFiles = <<[name |-> "good.csv"]>>
    /\ dataPatterns # <<>>


(***************************************************************************)
(* The recent files: uploads of files that parse, and the Clear Recent     *)
(* Files button, in a browser whose localStorage holds the list an earlier *)
(* session left.  The code reads a name only to compare it, so the list    *)
(* left is taken to be the first k of the names, k = 0..RecentCap; there   *)
(* is one name more than the list keeps.                                   *)
(***************************************************************************)
RecentNames == <<"a.csv", "b.csv", "c.csv", "d.csv", "e.csv", "f.csv">>

RecentFilesOnDisk ==
    { [name |-> RecentNames[k], columns |-> GoodFile.columns, errors |-> FALSE,
       rows |-> GoodFile.rows] : k \in 1..Len(RecentNames) }

\* the first k names, most recent first
SavedList(k) == [i \in 1..k |-> [name |-> RecentNames[i]]]

InitRecent ==
    /\ MountInit
    /\ \E k \in 0..RecentCap :
           /\ savedRecentFiles = SavedList(k)
           /\ recentFiles = SavedList(k)
           /\ closureRecentFiles = SavedList(k)
    /\ now = NowBase
    /\ arg = <<>>
    /\ ret = <<>>

NextRecent ==
    \/ \E file \in RecentFilesOnDisk : StartUpload(file, MaxUploads)
    \/ \E u \in 1..MaxUploads : ParseComplete(u)
    \/ ClearRecentFiles

SpecRecent == InitRecent /\ [][NextRecent]_vars

\* C13: after any sequence of successful uploads and clear-recent-files
\* actions the recent-files list has at most 5 entries, no two entries have
\* the same name, and its first entry is the file uploaded last.
C13_RecentFiles ==
    /\ Len(recentFiles) <= 5
    /\ \A i \in 1..Len(recentFiles) : \A j \in 1..Len(recentFiles) :
           recentFiles[i].name = recentFiles[j].name => i = j
    /\ (settled # <<>> /\ recentFiles # <<>>) => recentFiles[1].name = settled[1].name

\* C13 witness: the list held five names, and the upload of a sixth name
\* has put it first and dropped the last
C13_Witness ==
    /\ closureRecentFiles = SavedList(5)
    /\ settled # <<>>
    /\ settled[1].name = "f.csv"
    /\ recentFiles = <<[name |-> "f.csv"]>> \o SavedList(4)


(***************************************************************************)
(* The pipeline outputs: uploads and cached loads of two files, column     *)
(* selections and date-bound changes.  chartData and currentStats are      *)
(* useMemo values of their current inputs; dataPatterns and aiInsights are *)
(* state, set by analyzeDataPatterns.                                      *)
(***************************************************************************)
RisingFile ==
    [name |-> "rising.csv", columns |-> UploadColumns, errors |-> FALSE,
     rows |-> <<[Epoch |-> IsoDay(1), Easting |-> <<"1", "0">>, Northing |-> <<"5">>],
                [Epoch |-> IsoDay(2), Easting |-> <<"2", "0">>, Northing |-> <<"5">>],
                [Epoch |-> IsoDay(3), Easting |-> <<"3", "0">>, Northing |-> <<"5">>]>>]

PipelineFiles == {GoodFile, RisingFile}

\* currentStats (App.jsx 795-803); <<>> is null
currentStats ==
    IF Len(filteredData) = 0 THEN <<>>
    ELSE <<calculateStatistics(NumericValues(filteredData, selectedY))>>

\* an earlier session has uploaded both files
InitPipeline ==
    /\ MountInit
    /\ savedRecentFiles = <<[name |-> "rising.csv"], [name |-> "good.csv"]>>
    /\ recentFiles = savedRecentFiles
    /\ closureRecentFiles = savedRecentFiles
    /\ now = NowBase
    /\ arg = <<>>
    /\ ret = <<>>

NextPipeline ==
    \/ \E file \in PipelineFiles : StartUpload(file, MaxUploads)
    \/ \E u \in 1..MaxUploads : ParseComplete(u)
    \/ \E i \in 1..RecentCap : \E file \in PipelineFiles : LoadRecent(i, file)
    \/ \E col \in {"Epoch", "Easting"} : SetSelectedX(col)
    \/ \E col \in {"Easting", "Northing"} : SetSelectedY(col)
    \/ \E b \in BOOLEAN : SetAutoDateRange(b)
    \/ \E d \in DateChoices : SetStartDate(d)
    \/ \E d \in DateChoices : SetEndDate(d)

SpecPipeline == InitPipeline /\ [][NextPipeline]_vars

\* C15: after any sequence of uploads, cached loads, column selections and
\* date-bound changes, the pattern mapping and its insights are what the
\* pattern detector yields on the currently filtered rows of the current
\* data, never left over from an earlier row set or an earlier filter (the
\* traces and the statistics are recomputed from the filtered rows by
\* construction).
C15_PipelineCurrent ==
    LET rows == filteredData
        patterns == detectDataPatterns(rows, NumericColumns(data, dataColumns))
    IN  /\ dataPatterns = patterns
        /\ aiInsights = Insights(patterns)
        /\ currentStats = IF Len(rows) = 0 THEN <<>>
                          ELSE <<calculateStatistics(NumericValues(rows, selectedY))>>


(***************************************************************************)
(* The dual-axis chart: a file is loaded, the chart type and the           *)
(* start-from-zero option change and the two y selects move over the       *)
(* columns of the file.                                                    *)
(***************************************************************************)
DualFiles ==
    { [columns |-> <<"Epoch", "Easting", "Northing", "PointName">>, rows |-> rs] :
          rs \in SeqsUpTo(KeyedRows, MaxDualRows) }
    \cup
    { [columns |-> <<"Epoch", "Easting", "Northing">>, rows |-> rs] :
          rs \in SeqsUpTo(KeylessRows, MaxDualRows) }

InitDual ==
    /\ now = NowBase
    /\ arg = <<>>
    /\ ret = <<>>
    /\ \E file \in DualFiles : Loaded(file)

NextDual ==
    \/ \E t \in {"line", "dual_axis"} : SetChartType(t)
    \/ \E b \in BOOLEAN : SetRelativeToZero(b)
    \/ \E col \in {"Epoch", "Easting", "Northing", "PointName"} : SetSelectedY(col)
    \/ \E col \in {"Epoch", "Easting", "Northing", "PointName"} : SetSelectedY2(col)

SpecDual == InitDual /\ [][NextDual]_vars

\* the rows a dual-axis trace was built from
DualTraceRows(t, rows) ==
    IF t.name.group = <<>> THEN rows
    ELSE RowsOfKey(rows, groupingColumnDual[1], t.name.group[1])

\* the groups of the dual-axis chart that have a valid primary value, in the
\* order of Object.entries; <<>> stands for the whole set when ungrouped
PrimaryGroups ==
    IF IsGroupedDual
    THEN LET groups == groupedData(filteredData, groupingColumnDual[1])
             HasPrimary(entry) == NumericValues(entry.rows, selectedY) # <<>>
             kept == SelectSeq(groups, HasPrimary)
         IN  [g \in 1..Len(kept) |-> <<kept[g].key>>]
    ELSE << <<>> >>

AccentColour == "#038357"

\* C22: in dual-axis mode, grouped or not, the traces come in pairs, a
\* primary-axis trace followed by the secondary-axis trace of the same group,
\* and every secondary-axis trace is bound to the axis y2 and drawn with the
\* one accent colour, a dashed line and a square marker, whatever the
\* grouping and the group index.
C22_SecondaryStyle ==
    chartType = "dual_axis" =>
        LET traces == chartData IN
        /\ Len(traces) % 2 = 0
        /\ \A g \in 1..(Len(traces) \div 2) :
               LET primary == traces[2 * g - 1]
                   secondary == traces[2 * g]
               IN  /\ primary.yaxis = "y"
                   /\ primary.name.group = secondary.name.group
                   /\ primary.name.column = selectedY
                   /\ secondary.name.column = selectedY2
                   /\ secondary.yaxis = "y2"
                   /\ secondary.dash = "dash"
                   /\ secondary.symbol = "square"
                   /\ secondary.color = AccentColour


\* the position, from 0, of the group of key in the grouping order
GroupPosition(groups, key) ==
    (CHOOSE g \in 1..Len(groups) : groups[g].key = key) - 1

\* C23: the traces of the group at position g of the grouping order (the
\* order of the groups in groupedData) are drawn in COLOR_PALETTE[g mod 31],
\* single-axis traces and the primary traces of a dual-axis chart alike, for
\* every selected y column, also when an earlier group has no valid value
\* for it; the colour of a group then depends on the grouping order alone
\* and is the same in every render.
C23_ColourByGroupIndex ==
    IsGrouped =>
        LET traces == chartData
            groups == groupedData(filteredData, groupingColumn[1])
        IN  \A k \in 1..Len(traces) :
                traces[k].yaxis = "y" =>
                    traces[k].color =
                        COLOR_PALETTE[(GroupPosition(groups, traces[k].name.group[1])
                                          % Len(COLOR_PALETTE)) + 1]


(***************************************************************************)
(* detectDataPatterns on its own: one call on the rows of a file with the  *)
(* one numeric column Easting.                                             *)
(***************************************************************************)
\* the cell that spells the integer n, -99 <= n <= 99
NumeralOf(n) ==
    LET a == Abs(n)
        digits == IF a < 10 THEN <<Digits[a + 1]>>
                  ELSE <<Digits[(a \div 10) + 1], Digits[(a % 10) + 1]>>
    IN  IF n < 0 THEN <<"-">> \o digits ELSE digits

ColumnOf(values) == [i \in 1..Len(values) |-> [Easting |-> NumeralOf(values[i])]]

\* nine values of mean 10/3 and standard deviation 2/3, a fifth of the
\* mean: toFixed(4) spells them "3.3333" and "0.6667"
FifthOfMean == <<3, 3, 3, 3, 3, 3, 3, 4, 5>>

PatternValues ==
    SeqsUpTo((0 - MaxPatternValue)..MaxPatternValue, MaxPatternLen)
        \cup {FifthOfMean}

PatternInputs ==
    { [data |-> ColumnOf(values), columns |-> <<"Easting">>] : values \in PatternValues }

\* one call detectDataPatterns(arg.data, arg.columns)
CallDetectDataPatterns ==
    /\ ret = <<>>
    /\ ret' = <<detectDataPatterns(arg.data, arg.columns)>>
    /\ UNCHANGED <<appVars, uploadVars, now, arg>>

InitPatterns ==
    /\ AppInit
    /\ now = NowBase
    /\ arg \in PatternInputs
    /\ ret = <<>>

NextPatterns == CallDetectDataPatterns

SpecPatterns == InitPatterns /\ [][NextPatterns]_vars

\* the values of the column of a call
ValuesOfCall == NumericValues(arg.data, "Easting")

\* n^2 times the population variance of values: n * sum(x^2) - sum(x)^2
Dispersion(values) ==
    Len(values) * SumSeq([i \in 1..Len(values) |-> values[i] * values[i]])
        - SumSeq(values) * SumSeq(values)

\* the class of cv = stdDev / mean of the unrounded statistics: stdDev is
\* sqrt(Dispersion) / n and mean is sum / n, so that for a positive sum
\* cv > 1/2 is 4 * Dispersion > sum^2 and cv > 1/5 is 25 * Dispersion > sum^2
ExactVolatility(values) ==
    LET s == SumSeq(values)
        d == Dispersion(values)
    IN  IF s > 0
        THEN (IF 4 * d > s * s THEN "high"
              ELSE IF 25 * d > s * s THEN "medium"
              ELSE "low")
        ELSE IF s = 0 /\ d > 0 THEN "high"
        ELSE "low"

\* C24: the pattern that detectDataPatterns derives for a column is that of
\* the unrounded statistics: its range is max - min of the values, its scale
\* the class of that range, and its volatility the class of the coefficient
\* of variation of the unrounded stdDev and mean.
C24_FullPrecision ==
    (ret # <<>> /\ ret[1] # <<>>) =>
        LET values == ValuesOfCall
            pattern == ret[1][1].pattern
            range == MathMax(values) - MathMin(values)
        IN  /\ pattern.range = range * Scale4
            /\ pattern.scale = (IF range > 1000 THEN "large"
                                ELSE IF range > 100 THEN "medium" ELSE "small")
            /\ pattern.volatility = ExactVolatility(values)


\* stdDev / mean of the statistics of a column, for a mean that is not 0
CoefficientOfVariation(stats) ==
    IF stats.mean > 0 THEN Rat(stats.stdDev, stats.mean)
    ELSE Rat(0 - stats.stdDev, 0 - stats.mean)

\* 'high' when cv > 0.5, 'medium' when cv > 0.2, 'low' in every other case
ClassOfRatio(cv) ==
    IF RatLT(Rat(1, 2), cv) THEN "high"
    ELSE IF RatLT(Rat(1, 5), cv) THEN "medium"
    ELSE "low"

Periodic(period, length, base, step) ==
    [i \in 1..length |-> base + ((i - 1) % period) * step]

\* two cycles of the constant base; the first k values of the second cycle
\* are raised by d
Raised(period, base, k, d) ==
    [i \in 1..(2 * period) |->
        IF i > period /\ i <= period + k THEN base + d ELSE base]

SeasonLengths ==
    {0, 11, 12, 13}
        \cup { SeasonPeriods[p] * c + e :
                   p \in 1..Len(SeasonPeriods), c \in 1..MaxSeasonCycles, e \in {0 - 1, 0, 1} }

SeasonInputs ==
    { Periodic(period, length, base, step) :
          period \in {1, 7, 12, 24, 30}, length \in SeasonLengths,
          base \in (0 - 1)..1, step \in 0..MaxSeasonStep }
    \cup
    { Raised(period, base, k, d) :
          period \in {7, 12}, base \in 1..MaxSeasonBase, k \in 0..12, d \in 1..MaxSeasonStep }

\* one call detectSeasonality(arg)
CallDetectSeasonality ==
    /\ ret = <<>>
    /\ ret' = <<detectSeasonality(arg)>>
    /\ UNCHANGED <<appVars, uploadVars, now, arg>>

InitSeason ==
    /\ AppInit
    /\ now = NowBase
    /\ arg \in SeasonInputs
    /\ ret = <<>>

NextSeason == CallDetectSeasonality

SpecSeason == InitSeason /\ [][NextSeason]_vars

\* the values at the phase offset i (from 0) of the full cycles of a period
PhaseValues(values, period, i) ==
    LET full == Len(values) \div period
    IN  [j \in 1..full |-> values[(j - 1) * period + i + 1]]

\* the variance of xs is less than 0.1 times their mean: with n values of
\* sum s the variance is sum((n * x - s)^2) / n^3 and the mean s / n
VarianceBelowTenthOfMean(xs) ==
    LET n == Len(xs)
        s == SumSeq(xs)
        deviations == SumSeq([j \in 1..n |-> (n * xs[j] - s) * (n * xs[j] - s)])
    IN  10 * deviations < n * n * s

\* period has at least 2 full cycles in values, and more than 0.6 of its
\* phase offsets have a low cross-cycle variance
Qualifies(values, period) ==
    /\ Len(values) >= 2 * period
    /\ 10 * Cardinality({ i \in 0..(period - 1) :
                            VarianceBelowTenthOfMean(PhaseValues(values, period, i)) })
          > 6 * period

\* C26: detectSeasonality returns false (<<>>) for every sequence of fewer
\* than 12 values; for a longer one it returns the first period, in the
\* order 7, 12, 24, 30, that has at least 2 full cycles and of whose phase
\* offsets 0..P-1 more than 0.6 have a cross-cycle variance below 0.1 times
\* their mean; it returns false if no period qualifies.
C26_Seasonality ==
    ret # <<>> =>
        LET values == arg
            found == ret[1]
            candidates == { k \in 1..Len(SeasonPeriods) : Qualifies(values, SeasonPeriods[k]) }
        IN  /\ Len(values) < 12 => found = <<>>
            /\ SeasonPeriods = <<7, 12, 24, 30>>
            /\ (Len(values) >= 12 /\ candidates = {}) => found = <<>>
            /\ (Len(values) >= 12 /\ candidates # {}) =>
                   \E k \in candidates :
                       /\ found = <<SeasonPeriods[k]>>
                       /\ \A l \in candidates : k <= l

\* C26 witness: two cycles of a sequence of period 12 have been given, the
\* period 7 did not qualify and 12 was returned
C26_Witness ==
    /\ ret = << <<12>> >>
    /\ Len(arg) = 24
    /\ arg = Periodic(12, 24, 1, 1)
    /\ ~Qualifies(arg, 7)


(***************************************************************************)
(* One upload at a time: the user picks a file when no call of             *)
(* retryOperation is in flight.  Papa.parse calls complete or error back   *)
(* for every attempt, and the timer of a backoff fires.                    *)
(***************************************************************************)
StartUploadAlone(file) ==
    /\ uploads = <<>>
    /\ StartUpload(file, MaxUploads)

\* what a callback of Papa.parse (complete or error) does to the call u: the
\* call returns, or it goes into the backoff.  The step is possible exactly
\* when ParseComplete(u) or ReadError(u) is, and is one of the two.
CallsBack(u) ==
    /\ u \in 1..Len(uploads)
    /\ uploads[u].pc = "parsing"
    /\ \/ uploads' = RemoveAt(uploads, u)
       \/ uploads' = [uploads EXCEPT ![u].pc = "backoff",
                                     ![u].waits = Append(@, BackoffMs(uploads[u].attempt))]

\* what the timer of the backoff does to the call u
TimerFires(u) ==
    /\ u \in 1..Len(uploads)
    /\ uploads[u].pc = "backoff"
    /\ uploads' = [uploads EXCEPT ![u].pc = "parsing", ![u].attempt = @ + 1]

NextSettle ==
    \/ \E file \in UploadFiles : StartUploadAlone(file)
    \/ \E u \in 1..MaxUploads : ParseComplete(u)
    \/ \E u \in 1..MaxUploads : ReadError(u)
    \/ \E u \in 1..MaxUploads : BackoffElapsed(u)

\* every attempt of the call in flight is called back, and every timer fires
SpecSettle ==
    /\ InitUpload
    /\ [][NextSettle]_vars
    /\ WF_uploads(CallsBack(1))
    /\ WF_uploads(TimerFires(1))

\* the file of the upload files that has the name
FileNamed(name) == CHOOSE file \in UploadFiles : file.name = name

\* the state in which the last call of retryOperation has left the page
SettledState ==
    LET call == settled[1] IN
    /\ ~loading
    /\ IF call.outcome = "resolved"
       THEN /\ data = FileNamed(call.name).rows
            /\ dataColumns = FileNamed(call.name).columns
            /\ fileName = call.name
            /\ error = <<>>
            /\ retryCount = 0
       ELSE /\ error # <<>>
            /\ retryCount = 3
            /\ call.attempt = 3

\* C27: every upload that is started settles: the call in flight ends, and
\* from then on, while no other upload is started, the loading flag is false
\* and either the upload succeeded (the data is the rows of the file, the
\* error is null, the retry counter is 0) or it failed terminally after the
\* third attempt (the error is set, the retry counter is 3).
C27_UploadSettles ==
    /\ (uploads # <<>>) ~> (uploads = <<>>)
    /\ []((uploads = <<>> /\ settled # <<>>) => SettledState)
    /\ []((uploads = <<>>) => ~loading)

\* C27 witness: the upload of errors.csv has failed three times and settled
\* with the error set, the retry counter at 3 and the loading flag cleared
C27_Witness ==
    /\ uploads = <<>>
    /\ settled # <<>>
    /\ settled[1].name = "errors.csv"
    /\ settled[1].outcome = "error"
    /\ settled[1].attempt = 3
    /\ error # <<>>
    /\ retryCount = 3
    /\ ~loading


(***************************************************************************)
(* Two uploads in flight: the browser lets a second file be dropped while  *)
(* the first is parsed or waits in its backoff.  Nothing of the first call *)
(* is cancelled; the callbacks and timers of both calls interleave.        *)
(***************************************************************************)
EarlierFiles == {GoodFile, ErrorsFile}

LaterFiles == {RisingFile, EmptyFile}

\* the first file dropped in the session
StartEarlier(file) ==
    /\ uploads = <<>>
    /\ settled = <<>>
    /\ StartUpload(file, 2)

\* a second file dropped while the call of the first is still in flight
StartLater(file) ==
    /\ Len(uploads) = 1
    /\ settled = <<>>
    /\ uploads[1].file \in EarlierFiles
    /\ StartUpload(file, 2)

NextRace ==
    \/ \E file \in EarlierFiles : StartEarlier(file)
    \/ \E file \in LaterFiles : StartLater(file)
    \/ \E u \in 1..2 : ParseComplete(u)
    \/ \E u \in 1..2 : ReadError(u)
    \/ \E u \in 1..2 : BackoffElapsed(u)

SpecRace == InitUpload /\ [][NextRace]_vars

\* rows, columns, file name and patterns are those of the file
LoadedIs(file) ==
    /\ data = file.rows
    /\ dataColumns = file.columns
    /\ fileName = file.name
    /\ dataPatterns = detectDataPatterns(file.rows, NumericColumns(file.rows, file.columns))

\* the later upload has returned and the earlier one is alone in flight
EarlierOutlives(outcome) ==
    /\ Len(uploads) = 1
    /\ uploads[1].file \in EarlierFiles
    /\ settled # <<>>
    /\ settled[1].outcome = outcome
    /\ \E file \in LaterFiles : settled[1].name = file.name

\* C28: of two overlapping uploads, what is loaded is always of one file;
\* when the later-started upload succeeded and the earlier one returns after
\* it, the loaded file is still the later one's; and an error reported by
\* the later upload is not cleared by the earlier call starting an attempt.
C28_LaterUploadWins ==
    /\ [](data = <<>> \/ \E file \in EarlierFiles \cup LaterFiles : LoadedIs(file))
    /\ [][(EarlierOutlives("resolved") /\ uploads' = <<>>)
            => \E file \in LaterFiles : /\ data' = file.rows
                                        /\ dataColumns' = file.columns
                                        /\ fileName' = file.name]_vars
    /\ [][(EarlierOutlives("error") /\ error # <<>>
            /\ uploads[1].pc = "backoff" /\ uploads' # uploads)
            => error' = error]_vars


(***************************************************************************)
(* The auto date range and the filter: the effect of lines 440-448 reads   *)
(* the clock when it runs, filteredData reads it again when it is          *)
(* recomputed.  The files hold days, cells with no timestamp and cells     *)
(* that are neither a date nor a number, which are read as the clock too.  *)
(***************************************************************************)
AutoRangeRows ==
    { [Epoch |-> t, Easting |-> <<"1", "0">>] :
          t \in {IsoDay(1), IsoDay(3), <<>>, <<"x">>} }

AutoRangeFiles ==
    { [columns |-> <<"Epoch", "Easting">>, rows |-> rs] :
          rs \in SeqsUpTo(AutoRangeRows, MaxRows) }

InitAutoRange ==
    /\ now = NowBase
    /\ arg = <<>>
    /\ ret = <<>>
    /\ \E file \in AutoRangeFiles : Loaded(file)

NextAutoRange ==
    \/ \E b \in BOOLEAN : SetAutoDateRange(b)
    \/ \E d \in DateChoices : SetStartDate(d)
    \/ \E d \in DateChoices : SetEndDate(d)
    \/ Tick

SpecAutoRange == InitAutoRange /\ [][NextAutoRange]_vars

\* C29: while auto date range is on and the effect has set both bounds, the
\* filtered rows are all the rows, whatever the rows are and whenever the
\* filter runs.
C29_AutoRangeKeepsRows ==
    (autoDateRange /\ Len(data) > 0 /\ startDate # <<>> /\ endDate # <<>>)
        => filteredData = data


(***************************************************************************)
(* A session of uploads of new names: each file dropped has a name that    *)
(* was neither saved at mount nor uploaded before, one upload at a time,   *)
(* and the list is not cleared.  An attempt may fail to read the file.     *)
(***************************************************************************)
NameIndex(name) == CHOOSE k \in 1..Len(RecentNames) : RecentNames[k] = name

\* a file dropped whose name comes after the names saved at mount and after
\* the name uploaded last
StartUploadNew(file) ==
    /\ NameIndex(file.name) > Len(closureRecentFiles)
    /\ settled # <<>> => NameIndex(file.name) > NameIndex(settled[1].name)
    /\ StartUpload(file, 1)

NextSession ==
    \/ \E file \in RecentFilesOnDisk : StartUploadNew(file)
    \/ ParseComplete(1)
    \/ ReadError(1)
    \/ BackoffElapsed(1)

SpecSession == InitRecent /\ [][NextSession]_vars

\* the list with the name put first, most recent first, cut to the cap
Accumulated(name, list) ==
    LET Other(f) == f.name # name
        all == <<[name |-> name]>> \o SelectSeq(list, Other)
    IN  SubSeq(all, 1, IF Len(all) < RecentCap THEN Len(all) ELSE RecentCap)

\* C30: every successful upload of a new name puts the file first in the
\* recent-files list and keeps the entries the list had, in their order, up
\* to five entries; so after uploading A and then B the list starts B, A.
C30_RecentFilesAccumulate ==
    [][(uploads # <<>> /\ uploads' = <<>> /\ settled'[1].outcome = "resolved")
         => recentFiles' = Accumulated(uploads[1].file.name, recentFiles)]_vars

====
